---- MODULE Spec2Model ----
(***************************************************************************)
(* Model of the native gamepad backend (src/native/backend.c): the bounded *)
(* event queue, the callback-driven (macOS) driver with its background     *)
(* thread, the kernel-node (Linux) driver and the fixed-slot (Windows)     *)
(* driver.  One specification per build target, since exactly one driver   *)
(* is compiled in; SpecQueue exercises the queue and NextEvent alone.      *)
(***************************************************************************)
EXTENDS Integers, Sequences, FiniteSets, TLC

\* --------------------------------------------------------------- bounds
\* Queue capacity of the model (the program passes 1024 to queue_init).
QueueCap == 3
\* Number of records pushed in one behaviour.
MaxLog == 5

\* ------------------------------------------------------ event records
MOON_GAMEPAD_EV_CONNECTED == 0
MOON_GAMEPAD_EV_DISCONNECTED == 1
MOON_GAMEPAD_EV_BUTTON_PRESSED == 2
MOON_GAMEPAD_EV_BUTTON_RELEASED == 3
MOON_GAMEPAD_EV_AXIS_CHANGED == 4
MOON_GAMEPAD_EV_BUTTON_CHANGED == 5

\* moon_gamepad_event_t; value is an integer-valued double, time_ms is left
\* at 0 (the model has no wall clock in the records).
Event(tag, id, code, value) ==
  [tag |-> tag, id |-> id, code |-> code, pad |-> 0, value |-> value, time_ms |-> 0]

\* A calloc'ed slot of the ring.
ZeroEvent == Event(0, 0, 0, 0)

\* ------------------------------------------------------------- encoding
\* Little-endian bytes of an unsigned integer.
RECURSIVE LEBytes(_, _)
LEBytes(v, n) == IF n = 0 THEN <<>> ELSE <<v % 256>> \o LEBytes(v \div 256, n - 1)

\* IEEE-754 binary64 bytes, little-endian, of the doubles 0.0, 1.0
\* (0x3FF0000000000000) and -1.0 (0xBFF0000000000000).
F64Bytes(v) ==
  CASE v = 0 -> <<0, 0, 0, 0, 0, 0, 0, 0>>
    [] v = 1 -> <<0, 0, 0, 0, 0, 0, 240, 63>>
    [] v = -1 -> <<0, 0, 0, 0, 0, 0, 240, 191>>

\* memcpy(out, &ev, sizeof(ev)) on a little-endian target.
EncodeEvent(ev) ==
  LEBytes(ev.tag, 4) \o LEBytes(ev.id, 4) \o LEBytes(ev.code, 4) \o
  LEBytes(ev.pad, 4) \o F64Bytes(ev.value) \o LEBytes(ev.time_ms, 8)

\* ---------------------------------------------------------------- queue
\* queue_init: buf is NULL when calloc failed.
QueueInit(cap, allocOk) ==
  [buf |-> [i \in 0..(cap - 1) |-> ZeroEvent], null |-> ~allocOk,
   cap |-> cap, head |-> 0, tail |-> 0, len |-> 0]

\* A drop-oldest branch that drops nothing.
QueueDropOldestRejecting(qq) == qq

\* The drop-oldest branch of queue_push.

QueueDropOldest(qq) ==
  IF qq.len = qq.cap
    THEN [qq EXCEPT !.head = (qq.head + 1) % qq.cap, !.len = qq.len - 1]
    ELSE qq

\* A store that advances tail without wrapping it.
QueueStoreNoWrap(qq, ev) ==
  [qq EXCEPT !.buf[qq.tail] = ev, !.tail = qq.tail + 1]

\* q->buf[q->tail] = ev; q->tail = (q->tail + 1) % q->cap;
QueueStore(qq, ev) ==
  [qq EXCEPT !.buf[qq.tail] = ev, !.tail = (qq.tail + 1) % qq.cap]

\* q->len++
QueueBump(qq) == [qq EXCEPT !.len = qq.len + 1]

\* queue_push as one step (the single-threaded builds).
QueuePush(qq, ev) ==
  IF qq.null \/ qq.cap = 0
    THEN qq
    ELSE QueueBump(QueueStore(QueueDropOldest(qq), ev))

\* A pop that returns the oldest record without removing it.
QueuePopPeek(qq) ==
  IF qq.null \/ qq.cap = 0 \/ qq.len = 0
    THEN <<0, ZeroEvent, qq>>
    ELSE <<1, qq.buf[qq.head], qq>>

\* queue_pop: <<returned flag, record, queue after>>.
QueuePop(qq) ==
  IF qq.null \/ qq.cap = 0 \/ qq.len = 0
    THEN <<0, ZeroEvent, qq>>
    ELSE <<1, qq.buf[qq.head],
           [qq EXCEPT !.head = (qq.head + 1) % qq.cap, !.len = qq.len - 1]>>

\* The records held, oldest first.
QueueContents(qq) == [i \in 1..qq.len |-> qq.buf[(qq.head + i - 1) % qq.cap]]

\* ---------------------------------------------------------------- state
VARIABLES
  q,        \* moon_gamepad_backend_t.q
  log,      \* history: every record handed to queue_push, in order
  npop,     \* history: number of records removed by queue_pop
  lastOp,   \* history: the last operation and what it returned
  allocFails, \* history: number of failed result allocations in NextEvent
  \* callback-driven (macOS) driver
  slots,    \* devices[], device_ids[], entry_ids[], location_ids[], connected[]
            \* and the per-slot metadata; Len(slots) is devices_len
  next_id,  \* next_id
  gamepad_count, \* gamepad_count
  mgr,      \* mgr: "null", "open" or "released"
  rl,       \* rl: "null" or "set"
  stopReq,  \* CFRunLoopStop has marked the run loop stopped
  mu,       \* q.mu: "free", or the thread holding it ("bg", "con")
  bg,       \* the background thread: pc, the records still to push, the slot in work
  con,      \* the consumer thread: pc, Poll's timeout and what it has seen
  \* kernel-node (Linux) driver: the device table is slots as well
  nodes,    \* environment: the gamepad nodes present under /dev/input
  hw,       \* environment: number of hardware events so far
  platform, \* the driver compiled in
  dec,      \* decoder harness: the last raw sample decoded and its result
  \* force feedback
  caps,     \* environment: what each device node allows (open mode, FF_RUMBLE)
  now,      \* environment: the clock now_ms() reads
  ffOp,     \* history: the last driver call that ran the rumble code, the
            \* device table it found and the commands it sent to the devices
  \* fixed-slot (Windows) driver
  win,      \* win_connected[], win_packet[], win_buttons[], win_rumble_*[]
  pads,     \* environment: the XInput user slots as XInputGetState reports them
  xinput,   \* environment: whether the XInput library can be loaded
  meta      \* history: the metadata query in progress and what it returns

queueVars == <<q, log, npop, lastOp, allocFails>>
macVars == <<slots, next_id, gamepad_count, mgr, rl, stopReq, mu, bg, con>>
macVarsButBg == <<slots, next_id, gamepad_count, mgr, rl, stopReq, mu, con>>
linuxVars == <<nodes, hw>>
rumbleVars == <<caps, now, ffOp>>
winVars == <<win, pads, xinput>>
buildVars == <<platform, dec, meta, rumbleVars, winVars>>

\* No sample has been decoded.  Otherwise: the decoder applied (fn), the
\* native code or usage and the raw sample v, the logical range the device
\* reports for the element, the slot's synthesized pad state before (px, py)
\* and after (nx, ny), and the records the decode step enqueued, in order.
NoDecode ==
  [fn |-> "none", code |-> "", usage |-> 0, v |-> 0, minv |-> 0, maxv |-> 0,
   inv |-> FALSE, px |-> 0, py |-> 0, nx |-> 0, ny |-> 0,
   out |-> [n |-> 0, d |-> 1], events |-> <<>>]

\* No metadata query is in progress.  Otherwise, until the query has
\* returned: the id asked about, whether a Connected record with that id
\* was ever enqueued (known) and whether the device is connected now, and
\* what Name, UuidSimple (a sequence of characters), VendorId, ProductId,
\* IsForceFeedbackSupported, Axes, Buttons and AxisRange return for it;
\* ident is the identity the device reported when it was opened and
\* elements the element tree it reported (macOS build).
NoMeta ==
  [op |-> "none", id |-> 0, known |-> FALSE, connected |-> FALSE, name |-> "",
   uuid |-> <<>>, vendor |-> -1, product |-> -1, ff |-> FALSE, axes |-> <<>>,
   buttons |-> <<>>, range |-> <<>>, ident |-> <<>>, elements |-> <<>>]
vars == <<queueVars, macVars, linuxVars, buildVars>>

NoOp == [op |-> "none", out |-> <<>>, before |-> QueueInit(QueueCap, TRUE), allocOk |-> TRUE]

\* The consumer between calls.  During a Poll: its timeout, the return code
\* of the last wait, whether a signal arrived while it waited, whether the
\* timeout has elapsed, and whether the call has blocked.
ConIdle == [pc |-> "idle", timeout |-> 0, rc |-> 0, woken |-> FALSE, elapsed |-> FALSE,
            waited |-> FALSE]

\* The environment of a build in which the Linux driver is not compiled.
LinuxAbsent == nodes = {} /\ hw = 0 /\ caps = <<>>

\* What a device node allows: opened read-write with FF_RUMBLE among its
\* capabilities, opened read-write without it, or opened read-only.
DeviceKinds == {"rw_ff", "rw", "ro"}

\* No driver call is running rumble code.  Otherwise, until the call has
\* returned: the call (op), the time it read from now_ms() (t), for
\* SetRumble its arguments and its return code, the rumble state of the
\* device table the call found (before), the commands it has sent to the
\* devices, in order (cmds), and the device nodes its scan opened and
\* closed again, in order (closed).
NoFfOp ==
  [op |-> "none", t |-> 0, id |-> 0, strong |-> [n |-> 0, d |-> 1],
   weak |-> [n |-> 0, d |-> 1], d |-> 0, rc |-> 0, before |-> <<>>, cmds |-> <<>>,
   closed |-> <<>>]

\* The clock and the rumble history of a state in which no rumble code has
\* run.
RumbleIdle == now = 1 /\ ffOp = NoFfOp

\* The state of a build in which the Windows driver is not compiled.
WinAbsent == win = <<>> /\ pads = <<>> /\ xinput = "absent"

\* The driver state of a build in which the macOS driver is not compiled.
MacAbsent ==
  /\ slots = <<>> /\ next_id = 0 /\ gamepad_count = 0
  /\ mgr = "null" /\ rl = "null" /\ stopReq = FALSE /\ mu = "free"
  /\ bg = [pc |-> "absent", pending |-> <<>>, idx |-> 0]
  /\ con = [ConIdle EXCEPT !.pc = "absent"]

\* --------------------------------------------------- queue on its own
InitQueue ==
  /\ \E ok \in BOOLEAN : q = QueueInit(QueueCap, ok)
  /\ log = <<>>
  /\ npop = 0
  /\ lastOp = NoOp
  /\ allocFails = 0
  /\ MacAbsent
  /\ LinuxAbsent
  /\ platform = "queue"
  /\ dec = NoDecode /\ meta = NoMeta
  /\ RumbleIdle
  /\ WinAbsent

\* A producer pushes one record; the id is the push's sequence number so
\* that records are distinguishable.
Push ==
  /\ Len(log) < MaxLog
  /\ \E tag \in {MOON_GAMEPAD_EV_CONNECTED, MOON_GAMEPAD_EV_BUTTON_PRESSED} :
       LET ev == Event(tag, Len(log), 0, IF tag = MOON_GAMEPAD_EV_CONNECTED THEN 0 ELSE 1)
       IN /\ q' = QueuePush(q, ev)
          /\ log' = Append(log, ev)
          /\ lastOp' = [op |-> "push", out |-> <<>>, before |-> q, allocOk |-> TRUE]
  /\ UNCHANGED <<npop, allocFails>>
  /\ UNCHANGED <<macVars, linuxVars, buildVars>>

\* moon_gamepad_backend_next_event_bin: pop, then allocate and fill the
\* result; moonbit_make_bytes_raw may fail after the record was popped.
NextEventResult(qq, allocOk) ==
  LET r == QueuePop(qq)
  IN IF r[1] = 0 THEN <<>>
     ELSE IF ~allocOk THEN <<>>
     ELSE EncodeEvent(r[2])

NextEvent ==
  /\ \E allocOk \in BOOLEAN :
       /\ allocOk \/ (allocFails < 1 /\ q.len > 0 /\ ~q.null)
       /\ lastOp' = [op |-> "next", out |-> NextEventResult(q, allocOk), before |-> q,
                     allocOk |-> allocOk]
       /\ allocFails' = IF allocOk THEN allocFails ELSE allocFails + 1
  /\ q' = QueuePop(q)[3]
  /\ npop' = npop + QueuePop(q)[1]
  /\ UNCHANGED log
  /\ UNCHANGED <<macVars, linuxVars, buildVars>>

NextQueue == Push \/ NextEvent

SpecQueue == InitQueue /\ [][NextQueue]_vars


\* ------------------------------------------- callback-driven (macOS) driver
\* Physical devices the OS may announce.
NumDev == 3
\* Distinct location ids; registry entries beyond that share one (the HID
\* interfaces of one composite device report the same location id).
NumLoc == 1
\* Slots of the device table of the model (the program has 32).
MaxSlots == 2

\* Queue capacity and number of pushed records in the macOS model.
MacQueueCap == 2
MacMaxLog == 3

\* The IOHIDDeviceRef handles the OS may pass to the callbacks.
Dev == 1..NumDev
\* IORegistryEntryGetRegistryEntryID of a handle: the last handle is the
\* first device enumerated again (the same registry entry under another
\* IOHIDDeviceRef).
EntryOf(d) == IF d = NumDev THEN 1 ELSE d
\* kIOHIDLocationIDKey of a handle; it belongs to the registry entry.
LocOf(d) == ((EntryOf(d) - 1) % NumLoc) + 1

ETIMEDOUT == 60

\* The result of a linear scan for (int i = 0; i < len; i++) that returns the
\* first hit: the lowest 0-based index among the 1-based hits, else -1.
FirstIdx(hits) ==
  IF hits = {} THEN -1 ELSE (CHOOSE i \in hits : \A j \in hits : i <= j) - 1

find_device_idx(sl, d) == FirstIdx({i \in 1..Len(sl) : sl[i].dev = d})

\* A lookup by registry entry id that does not test connected[i].
mac_idx_by_entry_id_any(sl, e) == FirstIdx({i \in 1..Len(sl) : sl[i].entry = e})

mac_idx_by_entry_id(sl, e) ==
  FirstIdx({i \in 1..Len(sl) : sl[i].connected = 1 /\ sl[i].entry = e})

mac_idx_by_location_id(sl, l) ==
  FirstIdx({i \in 1..Len(sl) : sl[i].connected = 1 /\ sl[i].loc = l})

\* A count of every slot of the table, connected or not.
mac_slot_count(sl) == Len(sl)

mac_connected_count(sl) == Cardinality({i \in 1..Len(sl) : sl[i].connected = 1})

\* mac_backend_init: cleared tables, then pthread_create.
InitMac ==
  /\ q = QueueInit(MacQueueCap, TRUE)
  /\ log = <<>> /\ npop = 0 /\ lastOp = NoOp /\ allocFails = 0
  /\ slots = <<>> /\ next_id = 0 /\ gamepad_count = 0
  /\ mgr = "null" /\ rl = "null" /\ stopReq = FALSE /\ mu = "free"
  /\ bg = [pc |-> "start", pending |-> <<>>, idx |-> 0]
  /\ con = ConIdle
  /\ LinuxAbsent
  /\ platform = "mac"
  /\ dec = NoDecode /\ meta = NoMeta
  /\ RumbleIdle
  /\ WinAbsent

\* mac_thread_main up to IOHIDManagerOpen; IOHIDManagerCreate may fail.
MacThreadStart ==
  /\ platform = "mac"
  /\ bg.pc = "start"
  /\ \E ok \in BOOLEAN :
       IF ok THEN mgr' = "open" /\ bg' = [bg EXCEPT !.pc = "setup"]
             ELSE mgr' = mgr /\ bg' = [bg EXCEPT !.pc = "exited"]
  /\ UNCHANGED <<linuxVars, buildVars, queueVars, slots, next_id, gamepad_count, rl,
                stopReq, mu, con>>

\* b->rl = CFRunLoopGetCurrent();
MacThreadPublish ==
  /\ platform = "mac"
  /\ bg.pc = "setup"
  /\ rl' = "set"
  /\ bg' = [bg EXCEPT !.pc = "enter"]
  /\ UNCHANGED <<linuxVars, buildVars, queueVars, slots, next_id, gamepad_count, mgr,
                stopReq, mu, con>>

\* CFRunLoopRun() starts running the loop.
MacRunLoopEnter ==
  /\ platform = "mac"
  /\ bg.pc = "enter"
  /\ bg' = [bg EXCEPT !.pc = "running"]
  /\ UNCHANGED <<linuxVars, buildVars, queueVars, slots, next_id, gamepad_count, mgr, rl,
                stopReq, mu, con>>

\* CFRunLoopRun() returns once the loop is marked stopped; return NULL.
MacRunLoopExit ==
  /\ platform = "mac"
  /\ bg.pc = "running"
  /\ stopReq
  /\ bg' = [bg EXCEPT !.pc = "exited"]
  /\ UNCHANGED <<linuxVars, buildVars, queueVars, slots, next_id, gamepad_count, mgr, rl,
                stopReq, mu, con>>

\* device_matching_cb: the notification for handle d passes every early
\* return.  valid: the device has a location id, a joystick/gamepad/
\* multi-axis primary usage and a registry entry id.
device_matching_accepts(sl, d, valid) ==
  /\ find_device_idx(sl, d) < 0
  /\ valid
  /\ ~\E i \in 1..Len(sl) : sl[i].entry = EntryOf(d) /\ sl[i].connected = 1
  /\ Len(sl) < MaxSlots

\* device_matching_cb up to connected[idx] = 1.
MatchingCb ==
  /\ platform = "mac"
  /\ bg.pc = "running"
  /\ Len(log) < MacMaxLog
  /\ \E d \in Dev, valid \in BOOLEAN :
       IF device_matching_accepts(slots, d, valid)
         THEN /\ slots' = Append(slots, [dev |-> d, id |-> next_id, entry |-> EntryOf(d),
                                         loc |-> LocOf(d), connected |-> 1, filled |-> FALSE])
              /\ next_id' = next_id + 1
              /\ bg' = [bg EXCEPT !.pc = "match_fill", !.idx = Len(slots)]
         ELSE UNCHANGED <<slots, next_id, bg>>
  /\ UNCHANGED <<linuxVars, buildVars, queueVars, gamepad_count, mgr, rl, stopReq, mu, con>>

\* device_matching_cb from mac_collect_device_caps to the Connected record.
MatchFill ==
  /\ platform = "mac"
  /\ bg.pc = "match_fill"
  /\ slots' = [slots EXCEPT ![bg.idx + 1].filled = TRUE]
  /\ gamepad_count' = mac_connected_count(slots)
  /\ bg' = [bg EXCEPT !.pc = "push",
                      !.pending = <<Event(MOON_GAMEPAD_EV_CONNECTED, slots[bg.idx + 1].id, 0, 0)>>]
  /\ UNCHANGED <<linuxVars, buildVars, queueVars, next_id, mgr, rl, stopReq, mu, con>>

\* device_removal_cb: the index of the slot the notification for handle d
\* is applied to, -1 when it returns early.  valid: the device has a
\* location id.
device_removal_idx(sl, d, valid) ==
  IF valid THEN mac_idx_by_location_id(sl, LocOf(d)) ELSE -1

\* device_removal_cb
RemovalCb ==
  /\ platform = "mac"
  /\ bg.pc = "running"
  /\ Len(log) < MacMaxLog
  /\ \E d \in Dev, valid \in BOOLEAN :
       LET idx == device_removal_idx(slots, d, valid)
       IN IF idx >= 0
            THEN /\ slots' = [slots EXCEPT ![idx + 1].dev = 0, ![idx + 1].connected = 0]
                 /\ gamepad_count' = mac_connected_count(slots')
                 /\ bg' = [bg EXCEPT !.pc = "push",
                             !.pending = <<Event(MOON_GAMEPAD_EV_DISCONNECTED,
                                                 slots[idx + 1].id, 0, 0)>>]
            ELSE UNCHANGED <<slots, gamepad_count, bg>>
  /\ UNCHANGED <<linuxVars, buildVars, queueVars, next_id, mgr, rl, stopReq, mu, con>>

\* The records input_value_cb builds for an element of the given kind.
MacInputEvents(id, kind) ==
  CASE kind = "button" -> <<Event(MOON_GAMEPAD_EV_BUTTON_PRESSED, id, 1, 1)>>
    [] kind = "hat" -> <<Event(MOON_GAMEPAD_EV_AXIS_CHANGED, id, 57, 1),
                         Event(MOON_GAMEPAD_EV_AXIS_CHANGED, id, 58, 0)>>
    [] OTHER -> <<>>

\* input_value_cb: the sender is looked up by registry entry id among the
\* connected slots.
InputValueCb ==
  /\ platform = "mac"
  /\ bg.pc = "running"
  /\ \E d \in Dev, kind \in {"button", "hat", "other"} :
       LET idx == mac_idx_by_entry_id(slots, EntryOf(d))
           evs == IF idx < 0 THEN <<>> ELSE MacInputEvents(slots[idx + 1].id, kind)
       IN /\ Len(log) + Len(evs) <= MacMaxLog
          /\ bg' = IF evs = <<>> THEN bg ELSE [bg EXCEPT !.pc = "push", !.pending = evs]
  /\ UNCHANGED <<linuxVars, buildVars, queueVars, slots, next_id, gamepad_count, mgr, rl,
                stopReq, mu, con>>

\* A lock that is taken without waiting for its holder.
MutexLockIgnoringHolder(m) == TRUE

\* pthread_mutex_lock(&q->mu) returns once no thread holds the mutex.
MutexLock(m) == m = "free"

\* queue_push on the background thread: the NULL check and the lock.
MacPushLock ==
  /\ platform = "mac"
  /\ bg.pc = "push"
  /\ IF q.null \/ q.cap = 0
       THEN /\ bg' = [bg EXCEPT !.pending = Tail(bg.pending),
                                !.pc = IF Len(bg.pending) = 1 THEN "running" ELSE "push"]
            /\ mu' = mu
       ELSE /\ MutexLock(mu)
            /\ mu' = "bg"
            /\ bg' = [bg EXCEPT !.pc = "push_store"]
  /\ UNCHANGED <<linuxVars, buildVars, queueVars, slots, next_id, gamepad_count, mgr, rl,
                stopReq, con>>

\* queue_push: drop the oldest when full, store the record, advance tail.
MacPushStore ==
  /\ platform = "mac"
  /\ bg.pc = "push_store"
  /\ q' = QueueStore(QueueDropOldest(q), Head(bg.pending))
  /\ log' = Append(log, Head(bg.pending))
  /\ bg' = [bg EXCEPT !.pc = "push_bump"]
  /\ UNCHANGED <<linuxVars, buildVars, npop, lastOp, allocFails, macVarsButBg>>

\* A push that does not signal the condition variable.
CondSignalNone(c) == c

\* pthread_cond_signal(&q->cv): a consumer blocked in the wait is woken.
CondSignal(c) == IF c.pc = "waiting" THEN [c EXCEPT !.woken = TRUE] ELSE c

\* queue_push: len++, pthread_cond_signal, pthread_mutex_unlock.
MacPushBump ==
  /\ platform = "mac"
  /\ bg.pc = "push_bump"
  /\ q' = QueueBump(q)
  /\ con' = CondSignal(con)
  /\ mu' = "free"
  /\ bg' = [bg EXCEPT !.pending = Tail(bg.pending),
                      !.pc = IF Len(bg.pending) = 1 THEN "running" ELSE "push"]
  /\ UNCHANGED <<linuxVars, buildVars, log, npop, lastOp, allocFails, slots, next_id,
                gamepad_count, mgr, rl,
                 stopReq>>

\* ---- consumer thread (macOS build)

\* moon_gamepad_backend_next_event_bin: queue_pop takes the lock.
MacNextLock ==
  /\ platform = "mac"
  /\ con.pc = "idle"
  /\ ~(q.null \/ q.cap = 0)
  /\ MutexLock(mu)
  /\ mu' = "con"
  /\ con' = [con EXCEPT !.pc = "pop_locked"]
  /\ UNCHANGED <<linuxVars, buildVars, queueVars, slots, next_id, gamepad_count, mgr, rl,
                stopReq, bg>>

\* queue_pop under the lock, unlock, and the encoding of the result.
MacNextPop ==
  /\ platform = "mac"
  /\ con.pc = "pop_locked"
  /\ q' = QueuePop(q)[3]
  /\ npop' = npop + QueuePop(q)[1]
  /\ lastOp' = [NoOp EXCEPT !.op = "next", !.out = NextEventResult(q, TRUE)]
  /\ mu' = "free"
  /\ con' = [con EXCEPT !.pc = "idle"]
  /\ UNCHANGED <<linuxVars, buildVars, log, allocFails, slots, next_id, gamepad_count,
                mgr, rl, stopReq, bg>>

\* moon_gamepad_backend_poll_timeout is called: queue_wait_nonempty begins.
MacPollCall ==
  /\ platform = "mac"
  /\ con.pc = "idle"
  /\ \E t \in {-1, 0, 1} :
       con' = [ConIdle EXCEPT !.pc = "wait_lock", !.timeout = t]
  /\ UNCHANGED <<linuxVars, buildVars, queueVars, slots, next_id, gamepad_count, mgr, rl,
                stopReq, mu, bg>>

\* queue_wait_nonempty: pthread_mutex_lock.
MacWaitLock ==
  /\ platform = "mac"
  /\ con.pc = "wait_lock"
  /\ MutexLock(mu)
  /\ mu' = "con"
  /\ con' = [con EXCEPT !.pc = "wait_first"]
  /\ UNCHANGED <<linuxVars, buildVars, queueVars, slots, next_id, gamepad_count, mgr, rl,
                stopReq, bg>>

\* queue_wait_nonempty: if (q->len != 0 || timeout_ms == 0) unlock, return.
MacWaitFirst ==
  /\ platform = "mac"
  /\ con.pc = "wait_first"
  /\ IF q.len # 0 \/ con.timeout = 0
       THEN /\ mu' = "free"
            /\ con' = [con EXCEPT !.pc = "poll_ret"]
       ELSE /\ con' = [con EXCEPT !.pc = "wait_loop"]
            /\ mu' = mu
  /\ UNCHANGED <<linuxVars, buildVars, queueVars, slots, next_id, gamepad_count, mgr, rl,
                stopReq, bg>>

\* The loop condition of the timed wait after pthread_cond_timedwait
\* returned rc: leave on a record or on ETIMEDOUT.
WaitDone(qlen, timeout, rc, waited) ==
  qlen # 0 \/ (timeout > 0 /\ rc = ETIMEDOUT)

\* queue_wait_nonempty: while (q->len == 0) pthread_cond_[timed]wait; the
\* wait releases the mutex.  Otherwise unlock and return.
MacWaitLoop ==
  /\ platform = "mac"
  /\ con.pc = "wait_loop"
  /\ IF WaitDone(q.len, con.timeout, con.rc, con.waited)
       THEN con' = [con EXCEPT !.pc = "poll_ret"]
       ELSE con' = [con EXCEPT !.pc = "waiting", !.woken = FALSE, !.waited = TRUE]
  /\ mu' = "free"
  /\ UNCHANGED <<linuxVars, buildVars, queueVars, slots, next_id, gamepad_count, mgr, rl,
                stopReq, bg>>

\* The timeout of the running Poll elapses.
MacDeadline ==
  /\ platform = "mac"
  /\ con.pc \in {"wait_lock", "wait_first", "wait_loop", "waiting", "wait_relock"}
  /\ con.timeout > 0
  /\ ~con.elapsed
  /\ con' = [con EXCEPT !.elapsed = TRUE]
  /\ UNCHANGED <<linuxVars, buildVars, queueVars, slots, next_id, gamepad_count, mgr, rl,
                stopReq, mu, bg>>

\* pthread_cond_[timed]wait wakes: signalled, spuriously, or (timed wait,
\* deadline passed) with ETIMEDOUT.
MacWake ==
  /\ platform = "mac"
  /\ con.pc = "waiting"
  /\ \E rc \in {0, ETIMEDOUT} :
       /\ rc = ETIMEDOUT => (con.timeout > 0 /\ con.elapsed)
       /\ con' = [con EXCEPT !.pc = "wait_relock", !.rc = rc]
  /\ UNCHANGED <<linuxVars, buildVars, queueVars, slots, next_id, gamepad_count, mgr, rl,
                stopReq, mu, bg>>

\* pthread_cond_[timed]wait re-acquires the mutex before returning.
MacWaitRelock ==
  /\ platform = "mac"
  /\ con.pc = "wait_relock"
  /\ MutexLock(mu)
  /\ mu' = "con"
  /\ con' = [con EXCEPT !.pc = "wait_loop"]
  /\ UNCHANGED <<linuxVars, buildVars, queueVars, slots, next_id, gamepad_count, mgr, rl,
                stopReq, bg>>

\* moon_gamepad_backend_poll_timeout has returned to the caller.
MacPollReturn ==
  /\ platform = "mac"
  /\ con.pc = "poll_ret"
  /\ con' = ConIdle
  /\ UNCHANGED <<linuxVars, buildVars, queueVars, slots, next_id, gamepad_count, mgr, rl,
                stopReq, mu, bg>>

\* ---- metadata lookups on the macOS build
idx_by_id_u32_last(ids, id) ==
  IF \E i \in 1..Len(ids) : ids[i] = id
    THEN (CHOOSE i \in 1..Len(ids) : ids[i] = id /\ \A j \in (i + 1)..Len(ids) : ids[j] # id) - 1
    ELSE -1

\* idx_by_id_u32: the index of the first of the ids that equals id, -1 when
\* none of them does.
idx_by_id_u32(ids, id) ==
  IF \E i \in 1..Len(ids) : ids[i] = id
    THEN (CHOOSE i \in 1..Len(ids) : ids[i] = id /\ \A j \in 1..(i - 1) : ids[j] # id) - 1
    ELSE -1

\* device_ids[0 .. devices_len) as a metadata query can read them.  The
\* query takes no lock: while device_matching_cb is between devices_len++
\* and the Connected record, the query may still see the old length, or
\* the new length with the zero the new entry was allocated with, or the
\* entry as written.
device_ids_read(sl, pc) ==
  LET ids == [i \in 1..Len(sl) |-> sl[i].id]
  IN IF pc = "match_fill"
       THEN {ids, SubSeq(ids, 1, Len(ids) - 1), [ids EXCEPT ![Len(ids)] = 0]}
       ELSE {ids}

\* A metadata query (GamepadCount, Name, UuidSimple, VendorId, ProductId,
\* Axes, Buttons, AxisRange) starts reading the device table: no lock.
MacMetaBegin ==
  /\ platform = "mac"
  /\ con.pc = "idle"
  /\ con' = [con EXCEPT !.pc = "meta"]
  /\ UNCHANGED <<linuxVars, buildVars, queueVars, slots, next_id, gamepad_count, mgr, rl,
                stopReq, mu, bg>>

\* The metadata query returns.
MacMetaEnd ==
  /\ platform = "mac"
  /\ con.pc = "meta"
  /\ con' = [con EXCEPT !.pc = "idle"]
  /\ UNCHANGED <<linuxVars, buildVars, queueVars, slots, next_id, gamepad_count, mgr, rl,
                stopReq, mu, bg>>

\* mac_backend_shutdown: if (b->rl != NULL) CFRunLoopStop(b->rl).  The read
\* of rl is unsynchronised: a published rl may still be seen as NULL.
\* CFRunLoopStop on a loop that is not running yet may or may not take.
MacShutdownStop ==
  /\ platform = "mac"
  /\ con.pc = "idle"
  /\ \E seen \in {"null", rl}, takes \in BOOLEAN :
       stopReq' = (stopReq \/ (seen = "set" /\ (bg.pc = "running" \/ takes)))
  /\ con' = [con EXCEPT !.pc = "sd_join"]
  /\ UNCHANGED <<linuxVars, buildVars, queueVars, slots, next_id, gamepad_count, mgr, rl,
                mu, bg>>

\* A join that returns without waiting for the thread.
JoinReturnsAtOnce(pc) == TRUE

\* pthread_join returns once the thread has returned.
JoinReturns(pc) == pc = "exited"

\* mac_backend_shutdown: pthread_join(b->thread, NULL).
MacShutdownJoin ==
  /\ platform = "mac"
  /\ con.pc = "sd_join"
  /\ JoinReturns(bg.pc)
  /\ con' = [con EXCEPT !.pc = "sd_close"]
  /\ UNCHANGED <<linuxVars, buildVars, queueVars, slots, next_id, gamepad_count, mgr, rl,
                stopReq, mu, bg>>

\* mac_backend_shutdown: IOHIDManagerClose, CFRelease(b->mgr).
MacShutdownClose ==
  /\ platform = "mac"
  /\ con.pc = "sd_close"
  /\ mgr' = IF mgr # "null" THEN "released" ELSE mgr
  /\ con' = [con EXCEPT !.pc = "sd_release"]
  /\ UNCHANGED <<linuxVars, buildVars, queueVars, slots, next_id, gamepad_count, rl,
                stopReq, mu, bg>>

\* mac_backend_shutdown: release every retained device, devices_len = 0.
MacShutdownRelease ==
  /\ platform = "mac"
  /\ con.pc = "sd_release"
  /\ slots' = <<>>
  /\ gamepad_count' = 0
  /\ con' = [con EXCEPT !.pc = "sd_done"]
  /\ UNCHANGED <<linuxVars, buildVars, queueVars, next_id, mgr, rl, stopReq, mu, bg>>

NextMac ==
  \/ MacThreadStart \/ MacThreadPublish \/ MacRunLoopEnter \/ MacRunLoopExit
  \/ MatchingCb \/ MatchFill \/ RemovalCb \/ InputValueCb
  \/ MacPushLock \/ MacPushStore \/ MacPushBump
  \/ MacNextLock \/ MacNextPop
  \/ MacPollCall \/ MacWaitLock \/ MacWaitFirst \/ MacWaitLoop \/ MacDeadline
  \/ MacWake \/ MacWaitRelock \/ MacPollReturn
  \/ MacMetaBegin \/ MacMetaEnd
  \/ MacShutdownStop \/ MacShutdownJoin \/ MacShutdownClose \/ MacShutdownRelease

SpecMac == InitMac /\ [][NextMac]_vars

\* ---- the two threads under a fair scheduler
\* The steps the background thread takes on its own once it is scheduled:
\* its start-up, the rest of a callback in progress, its return.  When a
\* notification arrives is the environment's choice.
BgSteps ==
  \/ MacThreadStart \/ MacThreadPublish \/ MacRunLoopEnter \/ MacRunLoopExit
  \/ MatchFill \/ MacPushLock \/ MacPushStore \/ MacPushBump

\* The steps the consumer thread takes on its own inside a call it has
\* made.  A wait returns when it was signalled or its deadline has passed;
\* a spurious wake-up may happen and need not.
ConSteps ==
  \/ MacNextPop
  \/ MacWaitLock \/ MacWaitFirst \/ MacWaitLoop \/ MacWaitRelock \/ MacPollReturn
  \/ (MacWake /\ (con.woken \/ con.elapsed))
  \/ MacShutdownJoin \/ MacShutdownClose \/ MacShutdownRelease

\* The macOS build with devices being matched, Polls, NextEvent and
\* Shutdown.
NextMacLive ==
  \/ MacThreadStart \/ MacThreadPublish \/ MacRunLoopEnter \/ MacRunLoopExit
  \/ MatchingCb \/ MatchFill
  \/ MacPushLock \/ MacPushStore \/ MacPushBump
  \/ MacNextLock \/ MacNextPop
  \/ MacPollCall \/ MacWaitLock \/ MacWaitFirst \/ MacWaitLoop \/ MacDeadline
  \/ MacWake \/ MacWaitRelock \/ MacPollReturn
  \/ MacShutdownStop \/ MacShutdownJoin \/ MacShutdownClose \/ MacShutdownRelease

\* Both threads are scheduled again and again, and a thread that finds the
\* mutex free again and again gets it.
SpecMacLive ==
  InitMac /\ [][NextMacLive]_vars /\ SF_vars(BgSteps) /\ SF_vars(ConSteps)

\* ------------------------------------------- report decoding: operators
\* A double, held exactly as the fraction n/d with d > 0.  Every value the
\* decoders compare against (-1, 0, 1) is exact in binary64 and rounding is
\* monotone, so the order of a result relative to them is the order of the
\* fractions.
Frac(n, d) == IF d < 0 THEN [n |-> -n, d |-> -d] ELSE [n |-> n, d |-> d]
FracLe(a, b) == a.n * b.d <= b.n * a.d
FracEq(a, b) == a.n * b.d = b.n * a.d
FracNeg(a) == [n |-> -a.n, d |-> a.d]

CODE_BTN_SOUTH == 0
CODE_BTN_EAST == 1
CODE_BTN_C == 2
CODE_BTN_NORTH == 3
CODE_BTN_WEST == 4
CODE_BTN_Z == 5
CODE_BTN_LT == 6
CODE_BTN_RT == 7
CODE_BTN_LT2 == 8
CODE_BTN_RT2 == 9
CODE_BTN_SELECT == 10
CODE_BTN_START == 11
CODE_BTN_MODE == 12
CODE_BTN_LTHUMB == 13
CODE_BTN_RTHUMB == 14
CODE_BTN_DPAD_UP == 15
CODE_BTN_DPAD_DOWN == 16
CODE_BTN_DPAD_LEFT == 17
CODE_BTN_DPAD_RIGHT == 18
CODE_AXIS_LSTICKX == 100
CODE_AXIS_LSTICKY == 101
CODE_AXIS_LEFTZ == 102
CODE_AXIS_RSTICKX == 103
CODE_AXIS_RSTICKY == 104
CODE_AXIS_RIGHTZ == 105
CODE_AXIS_DPADX == 106
CODE_AXIS_DPADY == 107
\* UINT32_MAX as returned for an unmapped native code.
CODE_UNMAPPED == -1

clamp_f64(v, lo, hi) ==
  IF ~FracLe(lo, v) THEN lo ELSE IF ~FracLe(v, hi) THEN hi ELSE v

\* An adjustment that is taken when the number of values max-min+1 is odd.
AxisAdjustsOnOddSize(range_i64) ==
  range_i64 <= 2147483647 /\ range_i64 >= 0 /\ (range_i64 + 1) % 2 = 1

\* axis_value_like_gilrs: the test that guards range += 1.0; val += 1.0.
AxisAdjusts(range_i64) ==
  range_i64 <= 2147483647 /\ range_i64 >= 0 /\ range_i64 % 2 = 1

\* axis_value_like_gilrs
axis_value_like_gilrs(v, minv, maxv, invert_y) ==
  IF maxv = minv THEN Frac(0, 1)
  ELSE LET range_i64 == maxv - minv
           val_i64 == v - minv
           range == IF AxisAdjusts(range_i64) THEN range_i64 + 1 ELSE range_i64
           val == IF AxisAdjusts(range_i64) THEN val_i64 + 1 ELSE val_i64
           out == Frac(2 * val - range, range)
       IN IF range = 0 THEN Frac(0, 1)
          ELSE clamp_f64(IF invert_y /\ out.n # 0 THEN FracNeg(out) ELSE out,
                         Frac(-1, 1), Frac(1, 1))

\* A table that translates every key code, the unknown ones to BTN_SOUTH.
map_linux_btn_any(code) == CODE_BTN_SOUTH

\* map_linux_btn on the native codes of <linux/input-event-codes.h>.
map_linux_btn(code) ==
  CASE code = "BTN_SOUTH" -> CODE_BTN_SOUTH
    [] code = "BTN_EAST" -> CODE_BTN_EAST
    [] code = "BTN_C" -> CODE_BTN_C
    [] code = "BTN_NORTH" -> CODE_BTN_NORTH
    [] code = "BTN_WEST" -> CODE_BTN_WEST
    [] code = "BTN_Z" -> CODE_BTN_Z
    [] code = "BTN_TL" -> CODE_BTN_LT
    [] code = "BTN_TR" -> CODE_BTN_RT
    [] code = "BTN_TL2" -> CODE_BTN_LT2
    [] code = "BTN_TR2" -> CODE_BTN_RT2
    [] code = "BTN_SELECT" -> CODE_BTN_SELECT
    [] code = "BTN_START" -> CODE_BTN_START
    [] code = "BTN_MODE" -> CODE_BTN_MODE
    [] code = "BTN_THUMBL" -> CODE_BTN_LTHUMB
    [] code = "BTN_THUMBR" -> CODE_BTN_RTHUMB
    [] code = "BTN_DPAD_UP" -> CODE_BTN_DPAD_UP
    [] code = "BTN_DPAD_DOWN" -> CODE_BTN_DPAD_DOWN
    [] code = "BTN_DPAD_LEFT" -> CODE_BTN_DPAD_LEFT
    [] code = "BTN_DPAD_RIGHT" -> CODE_BTN_DPAD_RIGHT
    [] OTHER -> CODE_UNMAPPED

\* map_linux_abs on the native codes of <linux/input-event-codes.h>.
map_linux_abs(code) ==
  CASE code = "ABS_X" -> CODE_AXIS_LSTICKX
    [] code = "ABS_Y" -> CODE_AXIS_LSTICKY
    [] code = "ABS_Z" -> CODE_AXIS_LEFTZ
    [] code = "ABS_RX" -> CODE_AXIS_RSTICKX
    [] code = "ABS_RY" -> CODE_AXIS_RSTICKY
    [] code = "ABS_RZ" -> CODE_AXIS_RIGHTZ
    [] code = "ABS_HAT0X" -> CODE_AXIS_DPADX
    [] code = "ABS_HAT0Y" -> CODE_AXIS_DPADY
    [] OTHER -> CODE_UNMAPPED

\* norm_linux_abs
norm_linux_abs(v, code) ==
  IF code \in {"ABS_HAT0X", "ABS_HAT0Y"}
    THEN (IF v < 0 THEN Frac(-1, 1) ELSE IF v > 0 THEN Frac(1, 1) ELSE Frac(0, 1))
    ELSE LET dv == IF v < -32768 THEN -32768 ELSE IF v > 32767 THEN 32767 ELSE v
         IN Frac(dv, 32767)

\* norm_i16
norm_i16(v) == IF v = -32768 THEN Frac(-1, 1) ELSE Frac(v, 32767)

\* norm_u8
norm_u8(v) == Frac(v, 255)

\* mac_hid_code: (page << 16) | usage.
mac_hid_code(page, usage) == page * 65536 + usage

\* linux_backend_poll_timeout, the EV_ABS branch of the read loop.
LinuxDecodeAbs(id, code, v) ==
  IF map_linux_abs(code) = CODE_UNMAPPED THEN <<>>
  ELSE <<Event(MOON_GAMEPAD_EV_AXIS_CHANGED, id, map_linux_abs(code), norm_linux_abs(v, code))>>

\* input_value_cb, the axis branch: the record carries (double)v.
MacDecodeAxis(id, usage, v) ==
  <<Event(MOON_GAMEPAD_EV_AXIS_CHANGED, id, mac_hid_code(1, usage), Frac(v, 1))>>

\* input_value_cb, the hat branch: dpad_value of the sample.
MacDpadValue(hat_v, hat_min, hat_max) ==
  LET range == hat_max - hat_min + 1
      shifted == hat_v - hat_min
  IN IF range = 4 THEN shifted * 2 ELSE IF range = 8 THEN shifted ELSE -1

MacHatX(dv) == IF dv >= 5 /\ dv <= 7 THEN -1 ELSE IF dv >= 1 /\ dv <= 3 THEN 1 ELSE 0

\* The vertical component with up positive and down negative.
MacHatYUpPositive(dv) ==
  IF dv >= 3 /\ dv <= 5 THEN -1 ELSE IF dv \in {0, 1, 7} THEN 1 ELSE 0

MacHatY(dv) == IF dv >= 3 /\ dv <= 5 THEN 1 ELSE IF dv \in {0, 1, 7} THEN -1 ELSE 0

\* input_value_cb, the hat branch: the two axis records; dpad_x[] and
\* dpad_y[] are neither read nor written.
MacDecodeHat(id, hat_v, hat_min, hat_max) ==
  LET dv == MacDpadValue(hat_v, hat_min, hat_max)
  IN <<Event(MOON_GAMEPAD_EV_AXIS_CHANGED, id, mac_hid_code(1, 57), Frac(MacHatX(dv), 1)),
       Event(MOON_GAMEPAD_EV_AXIS_CHANGED, id, mac_hid_code(1, 58), Frac(MacHatY(dv), 1))>>

\* windows_backend_poll: a stick component that changed.
WinDecodeStick(idx, code, old, new) ==
  IF old # new THEN <<Event(MOON_GAMEPAD_EV_AXIS_CHANGED, idx, code, norm_i16(new))>> ELSE <<>>

\* windows_backend_poll: an analog trigger that changed.
WinDecodeTrigger(idx, code, old, new) ==
  IF old # new THEN <<Event(MOON_GAMEPAD_EV_BUTTON_CHANGED, idx, code, norm_u8(new))>> ELSE <<>>

\* ------------------------------------------------ kernel-node (Linux) driver
\* Device-node paths under /dev/input.
NumPaths == 2
\* Concurrently tracked devices of the model (the program has 64).
MaxFds == 2
\* Hardware events (plug, unplug, raw input) in one behaviour.
MaxHw == 2
\* Queue capacity of the Linux model.
LinQueueCap == 2

Paths == 1..NumPaths

\* static const char HEX[16] = "0123456789abcdef"
HEX == <<"0", "1", "2", "3", "4", "5", "6", "7", "8", "9", "a", "b", "c", "d", "e", "f">>

\* bytes_to_hex32: two characters for each of the 16 bytes, high nibble
\* first.
bytes_to_hex32(in16) ==
  [i \in 1..32 |-> LET v == in16[(i + 1) \div 2]
                   IN HEX[(IF i % 2 = 1 THEN (v \div 16) % 16 ELSE v % 16) + 1]]

\* The two bytes of a uint16_t, low byte first.
Le16(x) == <<x % 256, (x \div 256) % 256>>

\* n zero bytes.
Zeros(n) == [i \in 1..n |-> 0]

\* uuid_simple_from_ids
uuid_simple_from_ids(bustype, vendor, product, version) ==
  bytes_to_hex32(Le16(bustype) \o Le16(vendor) \o Le16(product) \o Le16(version) \o Zeros(8))

\* uuid_simple_macos
uuid_simple_macos(vendor, product, version) ==
  IF vendor = 0 /\ product = 0 /\ version = 0 THEN bytes_to_hex32(Zeros(16))
  ELSE bytes_to_hex32(<<3, 0, 0, 0>> \o Le16(vendor) \o Zeros(2) \o Le16(product) \o Zeros(2)
                        \o Le16(version) \o Zeros(2))

\* What EVIOCGID and EVIOCGNAME answer on the device nodes: the first is a
\* Bluetooth pad whose version has the high bit set, the second answers
\* neither ioctl, the others are USB pads.
NoIdent == [ok |-> FALSE, bustype |-> 0, vendor |-> 0, product |-> 0, version |-> 0, name |-> ""]
LinuxIdentOf(path) ==
  IF path = 1
    THEN [ok |-> TRUE, bustype |-> 5, vendor |-> 1356, product |-> 2508, version |-> 33041,
          name |-> "Wireless Controller"]
  ELSE IF path = 2 THEN NoIdent
  ELSE [ok |-> TRUE, bustype |-> 3, vendor |-> 1118, product |-> 654, version |-> 276,
        name |-> "Microsoft X-Box 360 pad"]

\* vendors[], products[], uuids[] and names[] of a slot: what
\* linux_backend_scan computed from the answers of the node when it opened
\* the slot's path.  They stay with the slot until it is closed, so the
\* model derives them from the path instead of storing them.
LinuxInfo(slot) ==
  LET iid == LinuxIdentOf(slot.path)
  IN [vendor |-> IF iid.ok THEN iid.vendor ELSE -1,
      product |-> IF iid.ok THEN iid.product ELSE -1,
      uuid |-> IF iid.ok
                 THEN uuid_simple_from_ids(iid.bustype, iid.vendor, iid.product, iid.version)
                 ELSE uuid_simple_from_ids(0, 0, 0, 0),
      name |-> iid.name]

\* A slot of fds[], fd_ids[], paths[], rw[], ff_supported[], ff_id[] and
\* ff_until_ms[] as linux_backend_scan fills it.  hup and kbuf are the
\* kernel's side of the open file: the device is gone, and the raw events
\* not yet read.
LinuxSlot(id, path) ==
  [fd |-> id + 3, id |-> id, path |-> path, hup |-> FALSE, kbuf |-> <<>>,
   rw |-> caps[path] # "ro", ff_supported |-> caps[path] = "rw_ff",
   ff_id |-> -1, ff_until_ms |-> 0]

\* A scan that takes no path for tracked.
linux_has_path_never(sl, path) == FALSE

\* linux_has_path
linux_has_path(sl, path) == \E i \in 1..Len(sl) : sl[i].path = path

\* The driver state threaded through one call: the table, the id counter,
\* the queue and the push history, the commands the call has sent to the
\* devices so far, and the nodes its scan has opened and closed again.
LinuxState(sl, nid, qq, lg) ==
  [slots |-> sl, next_id |-> nid, q |-> qq, log |-> lg, cmds |-> <<>>, closed |-> <<>>]

\* A command sent to a device: EVIOCSFF ("upload"), an EV_FF write with
\* value 1 ("play") or 0 ("stop"), EVIOCRMFF ("remove") or close(2)
\* ("close"), on descriptor fd for effect id, and the code that sent it.
FfCmd(kind, fd, id, by) == [kind |-> kind, fd |-> fd, id |-> id, by |-> by]

\* linux_ff_stop_idx that leaves ff_until_ms as it is.
linux_ff_stop_idx_keeping(st, i, by) ==
  IF i > Len(st.slots) \/ st.slots[i].fd < 0 THEN st
  ELSE IF ~st.slots[i].rw \/ ~st.slots[i].ff_supported \/ st.slots[i].ff_id < 0 THEN st
  ELSE [st EXCEPT !.cmds = Append(@, FfCmd("stop", st.slots[i].fd, st.slots[i].ff_id, by))]

\* linux_ff_stop_idx
linux_ff_stop_idx(st, i, by) ==
  IF i > Len(st.slots) \/ st.slots[i].fd < 0 THEN st
  ELSE IF ~st.slots[i].rw \/ ~st.slots[i].ff_supported \/ st.slots[i].ff_id < 0
    THEN [st EXCEPT !.slots[i].ff_until_ms = 0]
  ELSE [st EXCEPT !.cmds = Append(@, FfCmd("stop", st.slots[i].fd, st.slots[i].ff_id, by)),
                  !.slots[i].ff_until_ms = 0]

\* linux_ff_remove_idx
linux_ff_remove_idx(st, i) ==
  IF i > Len(st.slots) THEN st
  ELSE IF st.slots[i].fd < 0
    THEN [st EXCEPT !.slots[i].ff_id = -1, !.slots[i].ff_until_ms = 0]
  ELSE LET s1 == linux_ff_stop_idx(st, i, "remove")
       IN IF ~s1.slots[i].rw \/ ~s1.slots[i].ff_supported \/ s1.slots[i].ff_id < 0
            THEN [s1 EXCEPT !.slots[i].ff_id = -1]
            ELSE [s1 EXCEPT !.cmds = Append(@, FfCmd("remove", s1.slots[i].fd,
                                                     s1.slots[i].ff_id, "remove")),
                            !.slots[i].ff_id = -1]

\* The test of linux_ff_tick with > in place of >=.
LinuxFfDueLate(until, t) == until # 0 /\ t > until

\* linux_ff_tick: b->ff_until_ms[i] != 0 && t >= b->ff_until_ms[i].
LinuxFfDue(until, t) == until # 0 /\ t >= until

\* linux_ff_tick: the loop from slot i on, t being the time read once.
RECURSIVE LinuxFfTickFrom(_, _, _)
LinuxFfTickFrom(st, i, t) ==
  IF i > Len(st.slots) THEN st
  ELSE LinuxFfTickFrom(IF LinuxFfDue(st.slots[i].ff_until_ms, t)
                         THEN linux_ff_stop_idx(st, i, "tick") ELSE st,
                       i + 1, t)

\* linux_ff_tick
linux_ff_tick(st, t) == LinuxFfTickFrom(st, 1, t)

\* 0xFFFF, the longest replay.length of an ff_effect.
LINUX_FF_MAX_MS == 65535

\* The longest duration windows_rumble_set_idx accepts.
WIN_RUMBLE_MAX_MS == 600000

\* amp_to_u16: clamp to [0,1], scale by 65535, round half up.
amp_to_u16(x) ==
  IF x.n <= 0 THEN 0
  ELSE IF x.n >= x.d THEN 65535
  ELSE (2 * x.n * 65535 + x.d) \div (2 * x.d)

\* linux_ff_set_rumble_idx without the test of rw[] and ff_supported[].
linux_ff_set_rumble_idx_unchecked(st, i, strong, weak, duration_ms, t, upOk, playOk) ==
  IF i > Len(st.slots) \/ st.slots[i].fd < 0 THEN [st |-> st, rc |-> 0]
  ELSE IF duration_ms <= 0 \/ (strong = 0 /\ weak = 0)
    THEN [st |-> linux_ff_stop_idx(st, i, "set"), rc |-> 1]
  ELSE LET d == IF duration_ms > LINUX_FF_MAX_MS THEN LINUX_FF_MAX_MS ELSE duration_ms
           slot == st.slots[i]
           eid == IF slot.ff_id >= 0 THEN slot.ff_id ELSE 0
           up == [st EXCEPT !.cmds = Append(@, FfCmd("upload", slot.fd, slot.ff_id, "set"))]
           play == [up EXCEPT !.slots[i].ff_id = eid,
                              !.cmds = Append(@, FfCmd("play", slot.fd, eid, "set"))]
       IN IF ~upOk THEN [st |-> up, rc |-> 0]
          ELSE IF ~playOk THEN [st |-> play, rc |-> 0]
          ELSE [st |-> [play EXCEPT !.slots[i].ff_until_ms = t + d], rc |-> 1]

\* linux_ff_set_rumble_idx with effect.id = -1 on every upload: the kernel
\* allocates a new effect each time.
linux_ff_set_rumble_idx_fresh(st, i, strong, weak, duration_ms, t, upOk, playOk) ==
  IF i > Len(st.slots) \/ st.slots[i].fd < 0 THEN [st |-> st, rc |-> 0]
  ELSE IF ~st.slots[i].rw \/ ~st.slots[i].ff_supported THEN [st |-> st, rc |-> 0]
  ELSE IF duration_ms <= 0 \/ (strong = 0 /\ weak = 0)
    THEN [st |-> linux_ff_stop_idx(st, i, "set"), rc |-> 1]
  ELSE LET d == IF duration_ms > LINUX_FF_MAX_MS THEN LINUX_FF_MAX_MS ELSE duration_ms
           slot == st.slots[i]
           eid == IF slot.ff_id >= 0 THEN slot.ff_id + 1 ELSE 0
           up == [st EXCEPT !.cmds = Append(@, FfCmd("upload", slot.fd, -1, "set"))]
           play == [up EXCEPT !.slots[i].ff_id = eid,
                              !.cmds = Append(@, FfCmd("play", slot.fd, eid, "set"))]
       IN IF ~upOk THEN [st |-> up, rc |-> 0]
          ELSE IF ~playOk THEN [st |-> play, rc |-> 0]
          ELSE [st |-> [play EXCEPT !.slots[i].ff_until_ms = t + d], rc |-> 1]

\* linux_ff_set_rumble_idx on slot i at time t; upOk and playOk tell
\* whether EVIOCSFF and the EV_FF write succeed.  The result is the state
\* and the return code.
linux_ff_set_rumble_idx(st, i, strong, weak, duration_ms, t, upOk, playOk) ==
  IF i > Len(st.slots) \/ st.slots[i].fd < 0 THEN [st |-> st, rc |-> 0]
  ELSE IF ~st.slots[i].rw \/ ~st.slots[i].ff_supported THEN [st |-> st, rc |-> 0]
  ELSE IF duration_ms <= 0 \/ (strong = 0 /\ weak = 0)
    THEN [st |-> linux_ff_stop_idx(st, i, "set"), rc |-> 1]
  ELSE LET d == IF duration_ms > LINUX_FF_MAX_MS THEN LINUX_FF_MAX_MS ELSE duration_ms
           slot == st.slots[i]
           eid == IF slot.ff_id >= 0 THEN slot.ff_id ELSE 0
           up == [st EXCEPT !.cmds = Append(@, FfCmd("upload", slot.fd, slot.ff_id, "set"))]
           play == [up EXCEPT !.slots[i].ff_id = eid,
                              !.cmds = Append(@, FfCmd("play", slot.fd, eid, "set"))]
       IN IF ~upOk THEN [st |-> up, rc |-> 0]
          ELSE IF ~playOk THEN [st |-> play, rc |-> 0]
          ELSE [st |-> [play EXCEPT !.slots[i].ff_until_ms = t + d], rc |-> 1]

\* queue_push of one record, recorded in the history.
LinuxPush(st, ev) == [st EXCEPT !.q = QueuePush(st.q, ev), !.log = Append(st.log, ev)]

\* The id given to a newly accepted node that reuses the last id.
LinuxNewIdReused(nid) == IF nid = 0 THEN 0 ELSE nid - 1

\* uint32_t id = b->next_id++;
LinuxNewId(nid) == nid

\* The capability bits EVIOCGBIT answers on a device node: whether the
\* first query succeeds, the event types, the key codes and the absolute
\* axes.
Bits(ok, ev, key, abs) == [ok |-> ok, ev |-> ev, key |-> key, abs |-> abs]

\* The environment's device nodes.  The nodes 1..NumPaths are gamepads, the
\* odd ones with two sticks and the even ones with a hat only.  The nodes
\* after them are used by the scan specification alone: a pad whose only
\* axis is one hat axis, a pad-like device with a single stick axis, a
\* device with both stick axes whose keys are not gamepad buttons, and a
\* node on which the first query fails.
NodeBits(path) ==
  IF path <= NumPaths
    THEN (IF path % 2 = 1
            THEN Bits(TRUE, {"EV_SYN", "EV_KEY", "EV_ABS"}, {"BTN_SOUTH", "BTN_EAST"},
                      {"ABS_X", "ABS_Y"})
            ELSE Bits(TRUE, {"EV_SYN", "EV_KEY", "EV_ABS"}, {"BTN_START"},
                      {"ABS_HAT0X", "ABS_HAT0Y"}))
  ELSE IF path = NumPaths + 1
    THEN Bits(TRUE, {"EV_SYN", "EV_KEY", "EV_ABS"}, {"BTN_JOYSTICK"}, {"ABS_X", "ABS_HAT0Y"})
  ELSE IF path = NumPaths + 2
    THEN Bits(TRUE, {"EV_SYN", "EV_KEY", "EV_ABS"}, {"BTN_SOUTH"}, {"ABS_X", "ABS_Z"})
  ELSE IF path = NumPaths + 3
    THEN Bits(TRUE, {"EV_SYN", "EV_KEY", "EV_ABS"}, {"BTN_THUMBL", "KEY_A"}, {"ABS_X", "ABS_Y"})
  ELSE Bits(FALSE, {"EV_SYN", "EV_KEY", "EV_ABS"}, {"BTN_SOUTH"}, {"ABS_X", "ABS_Y"})

\* A test that takes any key for a gamepad button.
linux_is_gamepad_fd_any_key(bits) ==
  /\ bits.ok
  /\ "EV_KEY" \in bits.ev /\ bits.key # {}
  /\ "EV_ABS" \in bits.ev
  /\ ({"ABS_X", "ABS_Y"} \subseteq bits.abs \/ {"ABS_HAT0X", "ABS_HAT0Y"} \cap bits.abs # {})

\* linux_is_gamepad_fd: the key and axis bits are read only for the event
\* types the node reports and are zero otherwise.
linux_is_gamepad_fd(bits) ==
  LET has_key == "EV_KEY" \in bits.ev
      has_abs == "EV_ABS" \in bits.ev
      keybit == IF has_key THEN bits.key ELSE {}
      absbit == IF has_abs THEN bits.abs ELSE {}
      has_gamepad_key ==
        keybit \cap {"BTN_GAMEPAD", "BTN_JOYSTICK", "BTN_SOUTH", "BTN_EAST", "BTN_NORTH",
                     "BTN_WEST", "BTN_TL", "BTN_TR", "BTN_START", "BTN_SELECT", "BTN_MODE",
                     "BTN_DPAD_UP", "BTN_DPAD_DOWN", "BTN_DPAD_LEFT", "BTN_DPAD_RIGHT"} # {}
      has_sticks == "ABS_X" \in absbit /\ "ABS_Y" \in absbit
      has_hat == "ABS_HAT0X" \in absbit \/ "ABS_HAT0Y" \in absbit
  IN /\ bits.ok
     /\ has_key \/ has_abs
     /\ has_gamepad_key
     /\ has_sticks \/ has_hat

\* linux_backend_scan: the readdir loop over the entries in directory
\* order; present are the nodes that exist and can be opened.  A node that
\* fails linux_is_gamepad_fd is closed again.
RECURSIVE linux_backend_scan(_, _, _)
linux_backend_scan(st, order, present) ==
  IF order = <<>> \/ Len(st.slots) >= MaxFds
    THEN st
    ELSE LET path == Head(order)
             id == LinuxNewId(st.next_id)
         IN IF path \notin present \/ linux_has_path(st.slots, path)
              THEN linux_backend_scan(st, Tail(order), present)
              ELSE IF ~linux_is_gamepad_fd(NodeBits(path))
              THEN linux_backend_scan([st EXCEPT !.closed = Append(@, path)],
                                      Tail(order), present)
              ELSE linux_backend_scan(
                     LinuxPush([st EXCEPT !.slots = Append(st.slots, LinuxSlot(id, path)),
                                          !.next_id = st.next_id + 1],
                               Event(MOON_GAMEPAD_EV_CONNECTED, id, 0, 0)),
                     Tail(order), present)

\* A compaction that moves fds[] and fd_ids[] of the survivors down and
\* leaves the other per-slot arrays where they are.
linux_compact_handles_only(sl) ==
  LET live == SelectSeq(sl, LAMBDA s : s.fd >= 0)
  IN [j \in 1..Len(live) |-> [sl[j] EXCEPT !.fd = live[j].fd, !.id = live[j].id]]

\* linux_compact: drop the slots whose fd is -1, keeping the order.
RECURSIVE linux_compact(_)
linux_compact(sl) ==
  IF sl = <<>> THEN <<>>
  ELSE IF Head(sl).fd < 0 THEN linux_compact(Tail(sl))
  ELSE <<Head(sl)>> \o linux_compact(Tail(sl))

\* The struct input_event behind the raw reports of the model.  "key" is
\* an EV_KEY event of a mapped code with a value other than 0 (1 for a
\* press, 2 for an auto-repeat), "syn" the EV_SYN that ends a packet, "msc"
\* the EV_MSC scan code a pad sends ahead of a key, "key_other" and
\* "abs_other" a key and an axis the translation tables do not know, "hat"
\* a hat axis pushed left, "rel" a relative axis.
LinuxRaw(raw) ==
  CASE raw = "key" -> [type |-> "EV_KEY", code |-> "BTN_SOUTH", value |-> 1]
    [] raw = "key_other" -> [type |-> "EV_KEY", code |-> "BTN_TRIGGER_HAPPY1", value |-> 1]
    [] raw = "hat" -> [type |-> "EV_ABS", code |-> "ABS_HAT0X", value |-> -1]
    [] raw = "abs_other" -> [type |-> "EV_ABS", code |-> "ABS_MISC", value |-> 5]
    [] raw = "msc" -> [type |-> "EV_MSC", code |-> "MSC_SCAN", value |-> 589825]
    [] raw = "rel" -> [type |-> "EV_REL", code |-> "REL_X", value |-> 1]
    [] OTHER -> [type |-> "EV_SYN", code |-> "SYN_REPORT", value |-> 0]

\* The body of the read loop: the record a raw input_event decodes to, if
\* any.  ev.value != 0 gives ButtonPressed.  The axis samples of the model
\* are hat samples, whose normalized value is -1, 0 or 1; the record holds
\* it as that integer.
LinuxDecode(id, raw) ==
  LET ev == LinuxRaw(raw)
  IN IF ev.type = "EV_KEY"
       THEN (IF map_linux_btn(ev.code) = CODE_UNMAPPED THEN <<>>
             ELSE <<Event(IF ev.value # 0 THEN MOON_GAMEPAD_EV_BUTTON_PRESSED
                                          ELSE MOON_GAMEPAD_EV_BUTTON_RELEASED,
                          id, map_linux_btn(ev.code), IF ev.value # 0 THEN 1 ELSE 0)>>)
     ELSE IF ev.type = "EV_ABS"
       THEN [k \in 1..Len(LinuxDecodeAbs(id, ev.code, ev.value)) |->
               [LinuxDecodeAbs(id, ev.code, ev.value)[k] EXCEPT !.value = @.n \div @.d]]
     ELSE <<>>

\* The read loop of one slot: every raw event read is decoded and pushed.
RECURSIVE LinuxReadAll(_, _, _)
LinuxReadAll(st, id, raws) ==
  IF raws = <<>> THEN st
  ELSE LET evs == LinuxDecode(id, Head(raws))
       IN LinuxReadAll(IF evs = <<>> THEN st ELSE LinuxPush(st, evs[1]), id, Tail(raws))

\* close(b->fds[i]); b->fds[i] = -1 and the per-slot fields reset with it.
LinuxClose(st, i) ==
  [st EXCEPT !.cmds = Append(@, FfCmd("close", st.slots[i].fd, -1, "close")),
             !.slots[i].fd = -1, !.slots[i].path = 0, !.slots[i].kbuf = <<>>,
             !.slots[i].ff_supported = FALSE, !.slots[i].rw = FALSE,
             !.slots[i].ff_id = -1, !.slots[i].ff_until_ms = 0]

\* A disconnect branch that enqueues the record and leaves the descriptor
\* open.
LinuxDisconnectLeavingOpen(st, i) ==
  LinuxPush(st, Event(MOON_GAMEPAD_EV_DISCONNECTED, st.slots[i].id, 0, 0))

\* The disconnect branch: Disconnected record, the effect stopped and
\* removed, close, fd = -1, path and rumble fields cleared.
LinuxDisconnect(st, i) ==
  LinuxClose(linux_ff_remove_idx(
               LinuxPush(st, Event(MOON_GAMEPAD_EV_DISCONNECTED, st.slots[i].id, 0, 0)), i), i)

\* revents of slot i as poll(2) reports them.
LinuxRevents(slot) ==
  IF slot.hup THEN "err" ELSE IF slot.kbuf # <<>> THEN "in" ELSE "none"

\* The loop over pfds[] after poll(2) returned n > 0; fails are the slots
\* whose read ends with 0 or an error other than EAGAIN.
RECURSIVE LinuxHandle(_, _, _)
LinuxHandle(st, i, fails) ==
  IF i > Len(st.slots) THEN st
  ELSE LET slot == st.slots[i]
           rev == LinuxRevents(slot)
       IN IF rev = "err" THEN LinuxHandle(LinuxDisconnect(st, i), i + 1, fails)
          ELSE IF rev = "none" THEN LinuxHandle(st, i + 1, fails)
          ELSE LET read == [LinuxReadAll(st, slot.id, slot.kbuf) EXCEPT !.slots[i].kbuf = <<>>]
               IN LinuxHandle(IF i \in fails THEN LinuxDisconnect(read, i) ELSE read,
                              i + 1, fails)

\* The rumble fields of the slots that hold an effect handle or a pending
\* expiry, in table order.
RECURSIVE LinuxRumbleOf(_)
LinuxRumbleOf(sl) ==
  IF sl = <<>> THEN <<>>
  ELSE (IF Head(sl).ff_id >= 0 \/ Head(sl).ff_until_ms # 0
          THEN <<[id |-> Head(sl).id, fd |-> Head(sl).fd, ff_id |-> Head(sl).ff_id,
                  ff_until_ms |-> Head(sl).ff_until_ms]>>
          ELSE <<>>) \o LinuxRumbleOf(Tail(sl))

\* linux_backend_shutdown: the loop from slot i on.
RECURSIVE LinuxCloseAllFrom(_, _)
LinuxCloseAllFrom(st, i) ==
  IF i > Len(st.slots) THEN st
  ELSE LinuxCloseAllFrom(IF st.slots[i].fd >= 0 THEN LinuxClose(linux_ff_remove_idx(st, i), i)
                                                ELSE st,
                         i + 1)

\* The directory orders readdir may produce.
DirOrders == {o \in [1..NumPaths -> Paths] : \A a, b \in 1..NumPaths : a # b => o[a] # o[b]}

\* linux_backend_init: cleared tables and a first scan, the device nodes
\* being of the given kinds and readdir producing one of the given orders.
LinuxInit(kinds, orders) ==
  /\ caps \in kinds
  /\ npop = 0 /\ lastOp = NoOp /\ allocFails = 0
  /\ mgr = "null" /\ rl = "null" /\ stopReq = FALSE /\ mu = "free"
  /\ bg = [pc |-> "absent", pending |-> <<>>, idx |-> 0]
  /\ con = ConIdle
  /\ hw = 0
  /\ platform = "linux"
  /\ dec = NoDecode /\ meta = NoMeta
  /\ RumbleIdle
  /\ WinAbsent
  /\ \E order \in orders :
     \E present \in SUBSET {order[k] : k \in 1..Len(order)} :
       LET st == linux_backend_scan(LinuxState(<<>>, 0, QueueInit(LinQueueCap, TRUE), <<>>),
                                    order, present)
       IN /\ nodes = present
          /\ slots = st.slots /\ next_id = st.next_id /\ q = st.q /\ log = st.log
          /\ gamepad_count = Len(st.slots)

\* A Linux build whose nodes all open read-write and report FF_RUMBLE.
InitLinux == LinuxInit([Paths -> {"rw_ff"}], DirOrders)

\* A gamepad is plugged in: its node appears.  (Hardware events are taken
\* between driver calls or while poll(2) runs; one that falls into the
\* return of a call is the same as one right after it.)
LinuxPlug ==
  /\ platform = "linux"
  /\ con.pc \in {"idle", "in_poll"}
  /\ hw < MaxHw
  /\ \E p \in Paths \ nodes : nodes' = nodes \cup {p}
  /\ hw' = hw + 1
  /\ UNCHANGED <<queueVars, macVars, buildVars>>

\* A gamepad is unplugged: its node vanishes and an open file on it hangs up.
LinuxUnplug ==
  /\ platform = "linux"
  /\ con.pc \in {"idle", "in_poll"}
  /\ hw < MaxHw
  /\ \E p \in nodes :
       /\ nodes' = nodes \ {p}
       /\ slots' = [i \in 1..Len(slots) |->
                      IF slots[i].path = p THEN [slots[i] EXCEPT !.hup = TRUE] ELSE slots[i]]
  /\ hw' = hw + 1
  /\ UNCHANGED <<queueVars, next_id, gamepad_count, mgr, rl, stopReq, mu, bg, con, buildVars>>

\* The hardware produces a raw event on an open device.
LinuxInput ==
  /\ platform = "linux"
  /\ con.pc \in {"idle", "in_poll"}
  /\ hw < MaxHw
  /\ \E i \in 1..Len(slots), raw \in {"key", "syn"} :
       /\ ~slots[i].hup
       /\ slots' = [slots EXCEPT ![i].kbuf = Append(slots[i].kbuf, raw)]
  /\ hw' = hw + 1
  /\ UNCHANGED <<queueVars, next_id, gamepad_count, mgr, rl, stopReq, mu, bg, con, nodes,
                 buildVars>>

\* linux_backend_poll_timeout up to the poll(2) call: rescan, compact,
\* return at once when no device is tracked; the timeout is one of
\* timeouts and readdir produces one of orders.
LinuxPollEnter(timeouts, orders) ==
  /\ platform = "linux"
  /\ con.pc = "idle"
  /\ \E t \in timeouts, order \in orders :
       \E st \in {linux_backend_scan(linux_ff_tick(LinuxState(slots, next_id, q, log), now),
                                     order, nodes)} :
       LET sl == linux_compact(st.slots)
       IN /\ slots' = sl /\ next_id' = st.next_id /\ q' = st.q /\ log' = st.log
          /\ gamepad_count' = Len(sl)
          /\ con' = [ConIdle EXCEPT !.pc = IF Len(sl) = 0 THEN "poll_ret" ELSE "in_poll",
                                    !.timeout = t]
          /\ ffOp' = [NoFfOp EXCEPT !.op = "poll", !.t = now,
                                    !.before = LinuxRumbleOf(slots), !.cmds = st.cmds,
                                    !.closed = st.closed]
  /\ UNCHANGED <<npop, lastOp, allocFails, mgr, rl, stopReq, mu, bg, linuxVars,
                 platform, dec, meta, caps, now, winVars>>

\* Poll with a timeout of -1, 0 or 1 on the nodes 1..NumPaths.
LinuxPollCall == LinuxPollEnter({-1, 0, 1}, DirOrders)

\* poll(2) is blocked: no descriptor is ready and the timeout, if any, has
\* not elapsed.
LinuxBlocked ==
  /\ con.pc = "in_poll"
  /\ con.timeout # 0
  /\ ~con.elapsed
  /\ \A i \in 1..Len(slots) : LinuxRevents(slots[i]) = "none"

\* The timeout of the running poll(2) elapses.
LinuxDeadline ==
  /\ platform = "linux"
  /\ con.pc = "in_poll"
  /\ con.timeout > 0
  /\ ~con.elapsed
  /\ con' = [con EXCEPT !.elapsed = TRUE]
  /\ UNCHANGED <<queueVars, slots, next_id, gamepad_count, mgr, rl, stopReq, mu, bg,
                 linuxVars, buildVars>>

\* poll(2) returns (ready descriptors, timeout, or a signal: n <= 0 returns
\* at once); the ready slots are decoded, then linux_compact.
LinuxPollWake ==
  /\ platform = "linux"
  /\ con.pc = "in_poll"
  /\ \E intr \in BOOLEAN, fails \in SUBSET (1..Len(slots)) :
       LET ready == {i \in 1..Len(slots) : LinuxRevents(slots[i]) # "none"}
           n == IF intr THEN -1 ELSE Cardinality(ready)
       IN /\ intr \/ ~LinuxBlocked
          /\ intr => (ready = {} /\ fails = {})
          /\ \A i \in fails : LinuxRevents(slots[i]) = "in"
          /\ hw + Cardinality(fails) <= MaxHw
          /\ \E st \in {IF n <= 0
                           THEN linux_ff_tick(LinuxState(slots, next_id, q, log), now)
                           ELSE LinuxHandle(linux_ff_tick(LinuxState(slots, next_id, q, log),
                                                          now), 1, fails)} :
             LET sl == IF n <= 0 THEN st.slots ELSE linux_compact(st.slots)
             IN /\ hw' = hw + Cardinality(fails)
                /\ nodes' = nodes \ {slots[i].path : i \in fails}
                /\ slots' = sl /\ q' = st.q /\ log' = st.log
                /\ gamepad_count' = IF n <= 0 THEN gamepad_count ELSE Len(sl)
                /\ con' = [con EXCEPT !.pc = "poll_ret"]
                /\ ffOp' = [NoFfOp EXCEPT !.op = "poll", !.t = now,
                                          !.before = LinuxRumbleOf(slots), !.cmds = st.cmds]
  /\ UNCHANGED <<npop, lastOp, allocFails, next_id, mgr, rl, stopReq, mu, bg,
                 platform, dec, meta, caps, now, winVars>>

\* moon_gamepad_backend_poll_timeout has returned to the caller.
LinuxPollReturn ==
  /\ platform = "linux"
  /\ con.pc = "poll_ret"
  /\ con' = ConIdle
  /\ ffOp' = NoFfOp
  /\ UNCHANGED <<queueVars, slots, next_id, gamepad_count, mgr, rl, stopReq, mu, bg,
                 linuxVars, platform, dec, meta, caps, now, winVars>>

\* moon_gamepad_backend_next_event_bin on the single-threaded build.
LinuxNextEvent ==
  /\ platform = "linux"
  /\ con.pc = "idle"
  /\ q' = QueuePop(q)[3]
  /\ UNCHANGED <<log, npop, lastOp, allocFails, macVars, linuxVars, buildVars>>

\* linux_backend_shutdown: every effect stopped and removed, every
\* descriptor closed, fds_len = 0.
LinuxShutdown ==
  /\ platform = "linux"
  /\ con.pc = "idle"
  /\ slots' = <<>>
  /\ con' = [con EXCEPT !.pc = "sd_done"]
  /\ ffOp' = [NoFfOp EXCEPT !.op = "shutdown", !.t = now, !.before = LinuxRumbleOf(slots),
                            !.cmds = LinuxCloseAllFrom(LinuxState(slots, next_id, q, log),
                                                       1).cmds]
  /\ UNCHANGED <<queueVars, next_id, gamepad_count, mgr, rl, stopReq, mu, bg,
                 linuxVars, platform, dec, meta, caps, now, winVars>>

NextLinux ==
  \/ LinuxPlug \/ LinuxUnplug \/ LinuxInput
  \/ LinuxPollCall \/ LinuxDeadline \/ LinuxPollWake \/ LinuxPollReturn
  \/ LinuxNextEvent \/ LinuxShutdown

SpecLinux == InitLinux /\ [][NextLinux]_vars

\* ---- hotplug scanning on the Linux build
\* The device nodes of the scan specification: the gamepads 1..NumPaths
\* and the four nodes after them (see NodeBits).
ScanPaths == 1..(NumPaths + 4)

\* The directory orders drawn: ascending and descending.
ScanOrders ==
  {[k \in 1..(NumPaths + 4) |-> k], [k \in 1..(NumPaths + 4) |-> NumPaths + 5 - k]}

InitLinuxScan == LinuxInit([ScanPaths -> {"rw_ff"}], ScanOrders)

\* A device of any kind is plugged in: its node appears.
ScanPlug ==
  /\ platform = "linux"
  /\ con.pc \in {"idle", "in_poll"}
  /\ hw < MaxHw
  /\ \E p \in ScanPaths \ nodes : nodes' = nodes \cup {p}
  /\ hw' = hw + 1
  /\ UNCHANGED <<queueVars, macVars, buildVars>>

\* A non-blocking Poll on the nodes of the scan specification.
ScanPollCall == LinuxPollEnter({0}, ScanOrders)

NextLinuxScan ==
  \/ ScanPlug \/ LinuxUnplug
  \/ ScanPollCall \/ LinuxPollWake \/ LinuxPollReturn

SpecLinuxScan == InitLinuxScan /\ [][NextLinuxScan]_vars

\* ---- raw reports of every kind on the Linux build
\* The packets a device sends for one hardware event: a button press with
\* its scan code, a button the table does not know, a hat movement
\* together with an axis the table does not know, and a relative movement.
Packets ==
  {<<"msc", "key", "syn">>, <<"key_other", "syn">>, <<"abs_other", "hat", "syn">>,
   <<"rel", "syn">>}

\* The hardware produces a packet of raw events on an open device.
LinuxReport ==
  /\ platform = "linux"
  /\ con.pc \in {"idle", "in_poll"}
  /\ hw < MaxHw
  /\ \E i \in 1..Len(slots), packet \in Packets :
       /\ ~slots[i].hup
       /\ slots' = [slots EXCEPT ![i].kbuf = slots[i].kbuf \o packet]
  /\ hw' = hw + 1
  /\ UNCHANGED <<queueVars, next_id, gamepad_count, mgr, rl, stopReq, mu, bg, con, nodes,
                 buildVars>>

\* moon_gamepad_backend_poll_timeout is called with timeout 0.
ReportsPollCall == LinuxPollEnter({0}, DirOrders)

NextLinuxReports ==
  \/ LinuxReport \/ LinuxUnplug
  \/ ReportsPollCall \/ LinuxPollWake \/ LinuxPollReturn

SpecLinuxReports == InitLinux /\ [][NextLinuxReports]_vars


\* ---- force feedback on the Linux build
\* The readings of now_ms() the model draws: the millisecond the backend
\* starts in and the next, and the millisecond in which the longest effect
\* (of max_ms) started in the first one ends.
TimePoints(max_ms) == {1, 2, max_ms + 1}

\* The fractions 0, 1/200000 (too small for one step of the 16-bit
\* magnitude) and 1.
AmpZero == [n |-> 0, d |-> 1]
AmpTiny == [n |-> 1, d |-> 200000]
AmpFull == [n |-> 1, d |-> 1]

\* The (strong, weak, durationMs) passed to SetRumble: a stop by amplitude
\* and one by duration, an amplitude that rounds to no magnitude, either
\* motor for a short time, and a duration longer than either build can
\* represent.
Requests ==
  {<<AmpZero, AmpZero, 1>>, <<AmpFull, AmpFull, 0>>, <<AmpTiny, AmpZero, 1>>,
   <<AmpFull, AmpZero, 1>>, <<AmpZero, AmpFull, 1>>, <<AmpFull, AmpFull, 700000>>}

\* The requests drawn for a target the call rejects before it looks at
\* them, and for the pads after the first: one that would stop and one
\* that would start.
StopAndStart == {<<AmpFull, AmpFull, 0>>, <<AmpFull, AmpZero, 1>>}

\* idx_by_id_u32 on fd_ids[]: the slot of the id, 0 for none.
LinuxIdxById(sl, id) ==
  IF \E i \in 1..Len(sl) : sl[i].id = id
    THEN CHOOSE i \in 1..Len(sl) : sl[i].id = id /\ \A j \in 1..(i - 1) : sl[j].id # id
    ELSE 0

\* The ids SetRumble is called with: a negative one, those of the tracked
\* devices, the last one given out (tracked or not any more) and the next
\* one, not given out yet.
LinuxTargets ==
  {-1, next_id} \cup {slots[i].id : i \in 1..Len(slots)}
    \cup (IF next_id > 0 THEN {next_id - 1} ELSE {})

\* Wall-clock time passes between two driver calls.
ClockAdvance ==
  /\ platform \in {"linux", "windows"}
  /\ con.pc = "idle"
  /\ \E t \in TimePoints(IF platform = "linux" THEN LINUX_FF_MAX_MS ELSE WIN_RUMBLE_MAX_MS) :
       t > now /\ now' = t
  /\ UNCHANGED <<queueVars, macVars, linuxVars, platform, dec, meta, caps, ffOp, winVars>>

\* moon_gamepad_backend_set_rumble on the Linux build.
LinuxSetRumble ==
  /\ platform = "linux"
  /\ con.pc = "idle"
  /\ \E id \in LinuxTargets, req \in Requests, fail \in {"none", "upload", "play"} :
       LET amp == <<req[1], req[2]>>
           d == req[3]
           idx == LinuxIdxById(slots, id)
           st0 == LinuxState(slots, next_id, q, log)
           usable == id >= 0 /\ idx # 0 /\ slots[idx].rw /\ slots[idx].ff_supported
           ioctls == /\ usable
                     /\ d > 0 /\ (amp_to_u16(amp[1]) # 0 \/ amp_to_u16(amp[2]) # 0)
       IN /\ usable \/ req \in StopAndStart
          /\ fail # "none" => (ioctls /\ req = <<AmpFull, AmpZero, 1>>)
          /\ (ioctls /\ slots[idx].hup) => fail = "upload"
          /\ \E r \in {IF id < 0 \/ idx = 0 THEN [st |-> st0, rc |-> 0]
                         ELSE linux_ff_set_rumble_idx(st0, idx, amp_to_u16(amp[1]),
                                                      amp_to_u16(amp[2]), d, now,
                                                      fail # "upload", fail # "play")} :
               /\ slots' = r.st.slots
               /\ ffOp' = [op |-> "set", t |-> now, id |-> id, strong |-> amp[1],
                           weak |-> amp[2], d |-> d, rc |-> r.rc,
                           before |-> LinuxRumbleOf(slots), cmds |-> r.st.cmds]
  /\ con' = [con EXCEPT !.pc = "set_ret"]
  /\ UNCHANGED <<queueVars, next_id, gamepad_count, mgr, rl, stopReq, mu, bg,
                 linuxVars, platform, dec, meta, caps, now, winVars>>

\* moon_gamepad_backend_set_rumble has returned to the caller.
LinuxSetRumbleReturn ==
  /\ platform = "linux"
  /\ con.pc = "set_ret"
  /\ con' = ConIdle
  /\ ffOp' = NoFfOp
  /\ UNCHANGED <<queueVars, slots, next_id, gamepad_count, mgr, rl, stopReq, mu, bg,
                 linuxVars, platform, dec, meta, caps, now, winVars>>

\* moon_gamepad_backend_poll, the non-blocking Poll: linux_backend_poll
\* runs linux_backend_poll_timeout with timeout 0 from its first tick to
\* its last compaction, poll(2) returning at once.
LinuxPoll ==
  /\ platform = "linux"
  /\ con.pc = "idle"
  /\ \E order \in DirOrders, intr \in BOOLEAN :
       \E scanned \in {linux_backend_scan(linux_ff_tick(LinuxState(slots, next_id, q, log),
                                                          now), order, nodes)} :
       LET called == [scanned EXCEPT !.slots = linux_compact(scanned.slots)]
           ready == {i \in 1..Len(called.slots) : LinuxRevents(called.slots[i]) # "none"}
           n == IF intr THEN -1 ELSE Cardinality(ready)
       IN /\ intr => ready = {}
          /\ \E st \in {IF Len(called.slots) = 0 THEN called
                         ELSE IF n <= 0 THEN linux_ff_tick(called, now)
                         ELSE LinuxHandle(linux_ff_tick(called, now), 1, {})} :
               LET sl == IF Len(called.slots) = 0 \/ n <= 0 THEN st.slots
                         ELSE linux_compact(st.slots)
               IN /\ slots' = sl /\ next_id' = st.next_id /\ q' = st.q /\ log' = st.log
                  /\ gamepad_count' = Len(sl)
                  /\ con' = [ConIdle EXCEPT !.pc = "poll_ret"]
                  /\ ffOp' = [NoFfOp EXCEPT !.op = "poll", !.t = now,
                                            !.before = LinuxRumbleOf(slots),
                                            !.cmds = st.cmds]
  /\ UNCHANGED <<npop, lastOp, allocFails, mgr, rl, stopReq, mu, bg, linuxVars,
                 platform, dec, meta, caps, now, winVars>>

\* A Linux build on which the first node opens read-write and reports
\* FF_RUMBLE, the second opens read-write without it or read-only, and
\* the others read-only.
InitLinuxRumble ==
  LinuxInit({c \in [Paths -> DeviceKinds] :
               /\ c[1] = "rw_ff"
               /\ \A p \in Paths \ {1} : c[p] = "ro" \/ (p = 2 /\ c[p] = "rw")},
            DirOrders)

\* The Linux build under rumble commands and non-blocking Polls; the
\* consumer leaves the queue alone.
NextLinuxRumble ==
  \/ LinuxPlug \/ LinuxUnplug
  \/ LinuxPoll \/ LinuxPollReturn
  \/ LinuxSetRumble \/ LinuxSetRumbleReturn \/ ClockAdvance \/ LinuxShutdown

SpecLinuxRumble == InitLinuxRumble /\ [][NextLinuxRumble]_vars

\* ------------------------------------------------ fixed-slot (Windows) driver
\* XInput user slots of the model (the program has 4).
WinPads == 2

\* One entry of win_connected[], win_packet[], win_buttons[],
\* win_rumble_l[], win_rumble_r[] and win_rumble_until_ms[] after
\* windows_backend_init.  The sticks and triggers of the pads stay at rest
\* here, so win_lx[] .. win_rt2[] stay 0 and are left out.
WinSlot ==
  [connected |-> FALSE, packet |-> 0, buttons |-> 0,
   rumble_l |-> 0, rumble_r |-> 0, rumble_until_ms |-> 0]

\* The driver state threaded through one call: the table (pad idx is
\* entry idx + 1), the queue and the push history, the number of pads that
\* answered, and the commands the call has sent to the pads so far.
WinState(w, qq, lg) == [win |-> w, q |-> qq, log |-> lg, count |-> 0, cmds |-> <<>>]

\* queue_push of one record, recorded in the history.
WinPush(st, ev) == [st EXCEPT !.q = QueuePush(st.q, ev), !.log = Append(st.log, ev)]

\* windows_rumble_apply: XInputSetState(idx, l, r), when it can be loaded.
windows_rumble_apply(st, idx, l, r, by) ==
  IF idx >= WinPads \/ xinput = "missing" THEN st
  ELSE [st EXCEPT !.cmds = Append(@, FfCmd(IF l = 0 /\ r = 0 THEN "stop" ELSE "play",
                                           idx, 0, by))]

\* windows_rumble_tick: win_rumble_until_ms[i] != 0 && t >= win_rumble_until_ms[i].
WinRumbleDue(until, t) == until # 0 /\ t >= until

\* windows_rumble_tick: the body of the loop for a pad whose expiry passed.
WinRumbleExpire(st, idx) ==
  windows_rumble_apply([st EXCEPT !.win[idx + 1].rumble_l = 0, !.win[idx + 1].rumble_r = 0,
                                  !.win[idx + 1].rumble_until_ms = 0],
                       idx, 0, 0, "tick")

\* windows_rumble_tick: the loop from pad idx on, t being the time read once.
RECURSIVE WinRumbleTickFrom(_, _, _)
WinRumbleTickFrom(st, idx, t) ==
  IF idx >= WinPads THEN st
  ELSE WinRumbleTickFrom(
         IF st.win[idx + 1].connected /\ WinRumbleDue(st.win[idx + 1].rumble_until_ms, t)
           THEN WinRumbleExpire(st, idx) ELSE st,
         idx + 1, t)

\* windows_rumble_tick
windows_rumble_tick(st, t) == WinRumbleTickFrom(st, 0, t)

\* windows_rumble_set_idx on pad idx at time t.  The result is the state
\* and the return code.
windows_rumble_set_idx(st, idx, l, r, duration_ms, t) ==
  IF idx >= WinPads \/ xinput = "missing" THEN [st |-> st, rc |-> 0]
  ELSE IF ~st.win[idx + 1].connected THEN [st |-> st, rc |-> 0]
  ELSE IF duration_ms <= 0 \/ (l = 0 /\ r = 0)
    THEN [st |-> windows_rumble_apply(
                   [st EXCEPT !.win[idx + 1].rumble_l = 0, !.win[idx + 1].rumble_r = 0,
                              !.win[idx + 1].rumble_until_ms = 0], idx, 0, 0, "set"),
          rc |-> 1]
  ELSE LET d == IF duration_ms > WIN_RUMBLE_MAX_MS THEN WIN_RUMBLE_MAX_MS ELSE duration_ms
       IN [st |-> windows_rumble_apply(
                    [st EXCEPT !.win[idx + 1].rumble_l = l, !.win[idx + 1].rumble_r = r,
                               !.win[idx + 1].rumble_until_ms = t + d], idx, l, r, "set"),
           rc |-> 1]

\* XINPUT_GAMEPAD_A, the one button the pads of the model have.
XINPUT_GAMEPAD_A == 4096

\* push_btn_diff_mask
push_btn_diff_mask(st, id, oldv, newv, mask, code) ==
  LET was == (oldv \div mask) % 2
      is == (newv \div mask) % 2
  IN IF was = is THEN st
     ELSE WinPush(st, Event(IF is = 1 THEN MOON_GAMEPAD_EV_BUTTON_PRESSED
                                        ELSE MOON_GAMEPAD_EV_BUTTON_RELEASED,
                            id, code, is))

\* A status test that takes every result of XInputGetState for success.
XInputAnswersAlways(hwp) == TRUE

\* windows_backend_poll: is_connected = (res == 0), hwp being what
\* XInputGetState reports for the pad.
XInputAnswers(hwp) == hwp.present

\* windows_backend_poll: the body of the loop for pad idx, hwp being what
\* XInputGetState reports for it.
WinPollPad(st, idx, hwp) ==
  LET w == st.win[idx + 1]
      is_connected == XInputAnswers(hwp)
      counted == IF is_connected THEN [st EXCEPT !.count = @ + 1] ELSE st
  IN IF ~w.connected /\ is_connected
       THEN WinPush([counted EXCEPT !.win[idx + 1].connected = TRUE,
                                    !.win[idx + 1].packet = hwp.packet,
                                    !.win[idx + 1].buttons = hwp.buttons],
                    Event(MOON_GAMEPAD_EV_CONNECTED, idx, 0, 0))
     ELSE IF w.connected /\ ~is_connected
       THEN WinPush(windows_rumble_apply(
                      [counted EXCEPT !.win[idx + 1].connected = FALSE,
                                      !.win[idx + 1].rumble_l = 0,
                                      !.win[idx + 1].rumble_r = 0,
                                      !.win[idx + 1].rumble_until_ms = 0],
                      idx, 0, 0, "remove"),
                    Event(MOON_GAMEPAD_EV_DISCONNECTED, idx, 0, 0))
     ELSE IF ~is_connected \/ w.packet = hwp.packet THEN counted
     ELSE push_btn_diff_mask([counted EXCEPT !.win[idx + 1].packet = hwp.packet,
                                             !.win[idx + 1].buttons = hwp.buttons],
                             idx, w.buttons, hwp.buttons, XINPUT_GAMEPAD_A, CODE_BTN_SOUTH)

\* windows_backend_poll: the loop from pad idx on.
RECURSIVE WinPollFrom(_, _)
WinPollFrom(st, idx) ==
  IF idx >= WinPads THEN st ELSE WinPollFrom(WinPollPad(st, idx, pads[idx + 1]), idx + 1)

\* The rumble fields of the pads whose motors were set or that have a
\* pending expiry, in the form of LinuxRumbleOf: ff_id is 0 for motors
\* that were set and -1 for motors at rest.
WinRumbleOf(w) ==
  LET Has(i) == w[i].rumble_l # 0 \/ w[i].rumble_r # 0 \/ w[i].rumble_until_ms # 0
      F[i \in 0..Len(w)] ==
        IF i = 0 THEN <<>>
        ELSE F[i - 1] \o (IF Has(i)
                            THEN <<[id |-> i - 1, fd |-> i - 1,
                                    ff_id |-> IF w[i].rumble_l # 0 \/ w[i].rumble_r # 0
                                                THEN 0 ELSE -1,
                                    ff_until_ms |-> w[i].rumble_until_ms]>>
                            ELSE <<>>)
  IN F[Len(w)]

\* windows_backend_init; the pads plugged in and whether an XInput library
\* is installed are the environment's.
WinInit(present) ==
  /\ q = QueueInit(QueueCap, TRUE)
  /\ log = <<>> /\ npop = 0 /\ lastOp = NoOp /\ allocFails = 0
  /\ slots = <<>> /\ next_id = 0 /\ gamepad_count = 0
  /\ mgr = "null" /\ rl = "null" /\ stopReq = FALSE /\ mu = "free"
  /\ bg = [pc |-> "absent", pending |-> <<>>, idx |-> 0]
  /\ con = ConIdle
  /\ LinuxAbsent
  /\ platform = "windows"
  /\ dec = NoDecode /\ meta = NoMeta
  /\ RumbleIdle
  /\ win = [i \in 1..WinPads |-> WinSlot]
  /\ pads \in [1..WinPads -> {[present |-> pr, packet |-> 0, buttons |-> 0] : pr \in present}]
  /\ xinput \in {"missing", "unloaded"}

\* After windows_backend_init, with any of the pads plugged in.
InitWindows == WinInit(BOOLEAN)

\* After windows_backend_init, with every pad plugged in.
InitWindowsRumble == WinInit({TRUE})

\* A pad is plugged into a free user slot.
WinPlug ==
  /\ platform = "windows"
  /\ con.pc = "idle"
  /\ hw < MaxHw
  /\ \E i \in 1..WinPads :
       /\ ~pads[i].present
       /\ pads' = [pads EXCEPT ![i].present = TRUE]
  /\ hw' = hw + 1
  /\ UNCHANGED <<queueVars, macVars, nodes, platform, dec, meta, rumbleVars, win, xinput>>

\* A pad is unplugged.
WinUnplug ==
  /\ platform = "windows"
  /\ con.pc = "idle"
  /\ hw < MaxHw
  /\ \E i \in 1..WinPads :
       /\ pads[i].present
       /\ pads' = [pads EXCEPT ![i].present = FALSE]
  /\ hw' = hw + 1
  /\ UNCHANGED <<queueVars, macVars, nodes, platform, dec, meta, rumbleVars, win, xinput>>

\* The A button of a pad goes down or up: a new packet.
WinInput ==
  /\ platform = "windows"
  /\ con.pc = "idle"
  /\ hw < MaxHw
  /\ \E i \in 1..WinPads :
       /\ pads[i].present
       /\ pads' = [pads EXCEPT ![i].packet = @ + 1,
                                ![i].buttons = IF @ = 0 THEN XINPUT_GAMEPAD_A ELSE 0]
  /\ hw' = hw + 1
  /\ UNCHANGED <<queueVars, macVars, nodes, platform, dec, meta, rumbleVars, win, xinput>>

\* moon_gamepad_backend_poll on the Windows build: windows_backend_poll
\* from its first tick to its last.
WinPoll ==
  /\ platform = "windows"
  /\ con.pc = "idle"
  /\ \E st \in {IF xinput = "missing"
                   THEN windows_rumble_tick(WinState(win, q, log), now)
                   ELSE windows_rumble_tick(
                          WinPollFrom(windows_rumble_tick(WinState(win, q, log), now), 0),
                          now)} :
       /\ win' = st.win /\ q' = st.q /\ log' = st.log
       /\ gamepad_count' = IF xinput = "missing" THEN gamepad_count ELSE st.count
       /\ ffOp' = [NoFfOp EXCEPT !.op = "poll", !.t = now, !.before = WinRumbleOf(win),
                                 !.cmds = st.cmds]
  /\ xinput' = IF xinput = "missing" THEN xinput ELSE "loaded"
  /\ con' = [con EXCEPT !.pc = "poll_ret"]
  /\ UNCHANGED <<npop, lastOp, allocFails, slots, next_id, mgr, rl, stopReq, mu, bg,
                 linuxVars, platform, dec, meta, caps, now, pads>>

\* moon_gamepad_backend_set_rumble on the Windows build.
WinSetRumble ==
  /\ platform = "windows"
  /\ con.pc = "idle"
  /\ \E id \in (-1)..WinPads, req \in Requests :
       LET st0 == WinState(win, q, log)
           usable == id >= 0 /\ id < WinPads /\ xinput # "missing" /\ win[id + 1].connected
       IN /\ (usable /\ id = 0) \/ req \in StopAndStart
          /\ \E r \in {IF id < 0 \/ id >= WinPads THEN [st |-> st0, rc |-> 0]
                         ELSE windows_rumble_set_idx(st0, id, amp_to_u16(req[1]),
                                                     amp_to_u16(req[2]), req[3], now)} :
               /\ win' = r.st.win
               /\ ffOp' = [op |-> "set", t |-> now, id |-> id, strong |-> req[1],
                           weak |-> req[2], d |-> req[3], rc |-> r.rc,
                           before |-> WinRumbleOf(win), cmds |-> r.st.cmds]
               /\ xinput' = IF xinput = "missing" \/ id < 0 \/ id >= WinPads
                               THEN xinput ELSE "loaded"
  /\ con' = [con EXCEPT !.pc = "set_ret"]
  /\ UNCHANGED <<queueVars, slots, next_id, gamepad_count, mgr, rl, stopReq, mu, bg,
                 linuxVars, platform, dec, meta, caps, now, pads>>

\* The call has returned to the caller.
WinReturn ==
  /\ platform = "windows"
  /\ con.pc \in {"poll_ret", "set_ret"}
  /\ con' = ConIdle
  /\ ffOp' = NoFfOp
  /\ UNCHANGED <<queueVars, slots, next_id, gamepad_count, mgr, rl, stopReq, mu, bg,
                 linuxVars, platform, dec, meta, caps, now, winVars>>

\* backend_finalize on the Windows build: windows_backend_shutdown frees
\* the library and nothing else.
WinShutdown ==
  /\ platform = "windows"
  /\ con.pc = "idle"
  /\ xinput' = IF xinput = "loaded" THEN "unloaded" ELSE xinput
  /\ ffOp' = [NoFfOp EXCEPT !.op = "shutdown", !.t = now, !.before = WinRumbleOf(win)]
  /\ con' = [con EXCEPT !.pc = "sd_done"]
  /\ UNCHANGED <<queueVars, slots, next_id, gamepad_count, mgr, rl, stopReq, mu, bg,
                 linuxVars, platform, dec, meta, caps, now, win, pads>>

NextWindows ==
  \/ WinPlug \/ WinUnplug \/ WinInput
  \/ WinPoll \/ WinSetRumble \/ WinReturn \/ ClockAdvance \/ WinShutdown

SpecWindows == InitWindows /\ [][NextWindows]_vars

\* The Windows build under rumble commands; the buttons stay untouched.
NextWindowsRumble ==
  \/ WinPlug \/ WinUnplug
  \/ WinPoll \/ WinSetRumble \/ WinReturn \/ ClockAdvance \/ WinShutdown

\* ---- the two builds that have rumble code
InitRumble == InitLinuxRumble \/ InitWindowsRumble

NextRumble == NextLinuxRumble \/ NextWindowsRumble

SpecRumble == InitRumble /\ [][NextRumble]_vars

\* ------------------------------------------------------- metadata queries
\* win_names[idx] and win_uuids[idx] as windows_backend_init fills them,
\* for every user slot, connected or not.
WinName(idx) ==
  <<"XInput Gamepad 0", "XInput Gamepad 1", "XInput Gamepad 2", "XInput Gamepad 3">>[idx + 1]
WinUuid == <<"x", "i", "n", "p", "u", "t">>

\* moon_gamepad_backend_name on the Linux and Windows builds.
moon_gamepad_backend_name(id) ==
  IF id < 0 THEN ""
  ELSE IF platform = "linux"
    THEN LET idx == LinuxIdxById(slots, id) IN IF idx = 0 THEN "" ELSE LinuxInfo(slots[idx]).name
  ELSE IF id >= WinPads THEN "" ELSE WinName(id)

\* moon_gamepad_backend_uuid_simple on the Linux and Windows builds.
moon_gamepad_backend_uuid_simple(id) ==
  IF id < 0 THEN <<>>
  ELSE IF platform = "linux"
    THEN LET idx == LinuxIdxById(slots, id) IN IF idx = 0 THEN <<>> ELSE LinuxInfo(slots[idx]).uuid
  ELSE IF id >= WinPads THEN <<>> ELSE WinUuid

\* moon_gamepad_backend_vendor_id on the Linux and Windows builds.
moon_gamepad_backend_vendor_id(id) ==
  IF id < 0 THEN -1
  ELSE IF platform = "linux"
    THEN LET idx == LinuxIdxById(slots, id) IN IF idx = 0 THEN -1 ELSE LinuxInfo(slots[idx]).vendor
  ELSE -1

\* moon_gamepad_backend_product_id on the Linux and Windows builds.
moon_gamepad_backend_product_id(id) ==
  IF id < 0 THEN -1
  ELSE IF platform = "linux"
    THEN LET idx == LinuxIdxById(slots, id) IN IF idx = 0 THEN -1 ELSE LinuxInfo(slots[idx]).product
  ELSE -1

\* moon_gamepad_backend_is_ff_supported on the Linux and Windows builds.
moon_gamepad_backend_is_ff_supported(id) ==
  IF id < 0 THEN FALSE
  ELSE IF platform = "linux"
    THEN LET idx == LinuxIdxById(slots, id)
         IN IF idx = 0 THEN FALSE ELSE slots[idx].ff_supported
  ELSE IF id >= WinPads THEN FALSE ELSE xinput # "missing"

\* moon_gamepad_backend_axes_bin, moon_gamepad_backend_buttons_bin and
\* moon_gamepad_backend_axis_info_bin on the Linux and Windows builds: no
\* bytes for any id.
moon_gamepad_backend_axes_bin(id) == <<>>

\* A Connected record with the id has been enqueued.
Reported(id) ==
  \E k \in 1..Len(log) : log[k].tag = MOON_GAMEPAD_EV_CONNECTED /\ log[k].id = id

\* The identity a connected device gave when it was opened; zero where it
\* gave none.
IdentOf(id) ==
  IF platform = "linux" /\ LinuxIdxById(slots, id) # 0
    THEN LET iid == LinuxIdentOf(slots[LinuxIdxById(slots, id)].path)
         IN <<iid.bustype, iid.vendor, iid.product, iid.version>>
    ELSE <<0, 0, 0, 0>>

\* The ids the metadata queries are called with: a negative one, every id
\* given out so far, and the first ones not given out.
QueryIds ==
  IF platform = "linux" THEN (-1)..(next_id + 1) ELSE (-1)..WinPads

\* One round of metadata queries about an id: Name, UuidSimple, VendorId,
\* ProductId, IsForceFeedbackSupported, Axes, Buttons and AxisRange.  On
\* Windows IsForceFeedbackSupported loads the XInput library for an id
\* below 4.
MetaQuery ==
  /\ platform \in {"linux", "windows"}
  /\ con.pc = "idle"
  /\ \E id \in QueryIds :
       /\ meta' = [op |-> "query", id |-> id, known |-> Reported(id),
                   connected |-> IF platform = "linux" THEN LinuxIdxById(slots, id) # 0
                                 ELSE id \in 0..(WinPads - 1) /\ win[id + 1].connected,
                   name |-> moon_gamepad_backend_name(id),
                   uuid |-> moon_gamepad_backend_uuid_simple(id),
                   vendor |-> moon_gamepad_backend_vendor_id(id),
                   product |-> moon_gamepad_backend_product_id(id),
                   ff |-> moon_gamepad_backend_is_ff_supported(id),
                   axes |-> moon_gamepad_backend_axes_bin(id),
                   buttons |-> moon_gamepad_backend_axes_bin(id),
                   range |-> moon_gamepad_backend_axes_bin(id),
                   ident |-> IdentOf(id), elements |-> <<>>]
       /\ xinput' = IF platform = "windows" /\ id \in 0..(WinPads - 1) /\ xinput = "unloaded"
                      THEN "loaded" ELSE xinput
  /\ con' = [con EXCEPT !.pc = "meta_ret"]
  /\ UNCHANGED <<queueVars, slots, next_id, gamepad_count, mgr, rl, stopReq, mu, bg,
                 linuxVars, platform, dec, rumbleVars, win, pads>>

\* The queries have returned to the caller.
MetaReturn ==
  /\ platform \in {"linux", "windows"}
  /\ con.pc = "meta_ret"
  /\ con' = ConIdle
  /\ meta' = NoMeta
  /\ UNCHANGED <<queueVars, slots, next_id, gamepad_count, mgr, rl, stopReq, mu, bg,
                 linuxVars, platform, dec, rumbleVars, winVars>>

\* ------------------------------------------ capability collection (macOS)
\* The sizes of axes_codes[idx][], axis_info_codes[idx][] and the hat list,
\* and of buttons_codes[idx][].
MAC_AXES_CAP == 32
MAC_BUTTONS_CAP == 64

\* Cookies a mac_cookie_set_t of the model holds (the program's holds 512).
MacCookieCap == 2

\* An element of a device's element tree: its type, usage page and usage,
\* its cookie, its logical minimum and maximum; a collection has children.
MacElement(type, page, usage, cookie, minv, maxv) ==
  [type |-> type, page |-> page, usage |-> usage, cookie |-> cookie,
   min |-> minv, max |-> maxv, children |-> <<>>]
MacCollection(children) ==
  [type |-> "collection", page |-> 0, usage |-> 0, cookie |-> 0,
   min |-> 0, max |-> 0, children |-> children]

\* mac_type_is_input
mac_type_is_input(type) == type \in {"input_misc", "input_button", "input_axis"}

\* mac_element_is_axis
mac_element_is_axis(type, page, usage) ==
  /\ mac_type_is_input(type)
  /\ \/ page = 1 /\ usage \in 48..56
     \/ page = 2 /\ usage \in {186, 187, 196, 197}

\* mac_element_is_button
mac_element_is_button(type, page, usage) ==
  /\ mac_type_is_input(type)
  /\ IF page = 1 THEN usage \in {144, 145, 146, 147, 61, 62, 133}
                 ELSE page = 9 \/ page = 12

\* mac_element_is_hat
mac_element_is_hat(type, page, usage) ==
  mac_type_is_input(type) /\ page = 1 /\ (usage = 57 \/ usage = 58)

\* mac_caps_clear: the capability lists of a slot, empty.  axes and
\* buttons hold (code, key) pairs, info (code, min, max) triples.
mac_caps_clear == [axes |-> <<>>, buttons |-> <<>>, info |-> <<>>]

\* mac_codes_contains
mac_codes_contains(xs, code) == \E i \in 1..Len(xs) : xs[i].code = code

\* mac_cookie_contains
mac_cookie_contains(s, cookie) == \E i \in 1..Len(s) : s[i] = cookie

\* mac_cookie_add: a full set takes no further cookie.
mac_cookie_add(s, cookie) == IF Len(s) >= MacCookieCap THEN s ELSE Append(s, cookie)

\* mac_insert_sorted that inserts before the first key not below the new one.
mac_insert_sorted_unstable(xs, cap, code, key) ==
  IF Len(xs) >= cap THEN xs
  ELSE LET later == {i \in 1..Len(xs) : xs[i].key >= key}
           pos == IF later = {} THEN Len(xs) + 1
                  ELSE CHOOSE i \in later : \A j \in later : i <= j
       IN SubSeq(xs, 1, pos - 1) \o <<[code |-> code, key |-> key]>> \o
          SubSeq(xs, pos, Len(xs))

\* mac_insert_sorted: nothing when the list is full; otherwise the pair is
\* inserted before the first entry with a greater key, at the end when
\* there is none.
mac_insert_sorted(xs, cap, code, key) ==
  IF Len(xs) >= cap THEN xs
  ELSE LET later == {i \in 1..Len(xs) : xs[i].key > key}
           pos == IF later = {} THEN Len(xs) + 1
                  ELSE CHOOSE i \in later : \A j \in later : i <= j
       IN SubSeq(xs, 1, pos - 1) \o <<[code |-> code, key |-> key]>> \o
          SubSeq(xs, pos, Len(xs))

\* mac_push_code
mac_push_code(xs, cap, code, key) ==
  IF Len(xs) >= cap THEN xs ELSE Append(xs, [code |-> code, key |-> key])

\* mac_axis_info_add with room for two codes.
mac_axis_info_add_two(info, code, minv, maxv) ==
  IF \E i \in 1..Len(info) : info[i].code = code THEN info
  ELSE IF Len(info) < 2 THEN Append(info, [code |-> code, min |-> minv, max |-> maxv])
  ELSE info

\* mac_axis_info_add in which the last element with a code sets its range.
mac_axis_info_add_last(info, code, minv, maxv) ==
  IF \E i \in 1..Len(info) : info[i].code = code
    THEN [i \in 1..Len(info) |->
            IF info[i].code = code THEN [code |-> code, min |-> minv, max |-> maxv]
            ELSE info[i]]
  ELSE IF Len(info) < MAC_AXES_CAP
    THEN Append(info, [code |-> code, min |-> minv, max |-> maxv])
  ELSE info

\* mac_axis_info_add: nothing when the code has a range already or the
\* table is full.
mac_axis_info_add(info, code, minv, maxv) ==
  IF \E i \in 1..Len(info) : info[i].code = code THEN info
  ELSE IF Len(info) < MAC_AXES_CAP
    THEN Append(info, [code |-> code, min |-> minv, max |-> maxv])
  ELSE info

\* mac_add_axis_code
mac_add_axis_code(c, code, sort_key, minv, maxv) ==
  [c EXCEPT !.axes = IF mac_codes_contains(@, code) THEN @
                     ELSE mac_insert_sorted(@, MAC_AXES_CAP, code, sort_key),
            !.info = mac_axis_info_add(@, code, minv, maxv)]

\* mac_add_axis_code_append
mac_add_axis_code_append(c, code, sort_key, minv, maxv) ==
  [c EXCEPT !.axes = IF mac_codes_contains(@, code) THEN @
                     ELSE mac_push_code(@, MAC_AXES_CAP, code, sort_key),
            !.info = mac_axis_info_add(@, code, minv, maxv)]

\* mac_add_button_code
mac_add_button_code(c, code, sort_key) ==
  [c EXCEPT !.buttons = IF mac_codes_contains(@, code) THEN @
                        ELSE mac_insert_sorted(@, MAC_BUTTONS_CAP, code, sort_key)]

\* mac_hat_axes_add
mac_hat_axes_add(hats, code, key) ==
  IF mac_codes_contains(hats, code) THEN hats
  ELSE mac_insert_sorted(hats, MAC_AXES_CAP, code, key)

\* mac_collect_elements: the loop over an element array, descending into
\* the children of a collection where it meets one.  st holds the slot's
\* lists (caps), the hat list and the cookie set.  The loop is unfolded by
\* halves: the elements are taken in array order.
RECURSIVE mac_collect_elements(_, _)
mac_collect_elements(st, elements) ==
  IF elements = <<>> THEN st
  ELSE IF Len(elements) > 1
    THEN CHOOSE r \in {mac_collect_elements(
                          half, SubSeq(elements, Len(elements) \div 2 + 1, Len(elements))) :
                        half \in {mac_collect_elements(
                                    st, SubSeq(elements, 1, Len(elements) \div 2))}} : TRUE
  ELSE LET el == elements[1]
           seen == mac_cookie_contains(st.cookies, el.cookie)
           marked == [st EXCEPT !.cookies = mac_cookie_add(@, el.cookie)]
           code == mac_hid_code(el.page, el.usage)
           code_y == mac_hid_code(el.page, el.usage + 1)
       IN IF el.type = "collection" THEN mac_collect_elements(st, el.children)
          ELSE IF mac_element_is_hat(el.type, el.page, el.usage)
            THEN IF seen THEN st
                 ELSE [marked EXCEPT
                         !.caps.info = mac_axis_info_add(
                                         mac_axis_info_add(@, code, -1, 1), code_y, -1, 1),
                         !.hats = mac_hat_axes_add(mac_hat_axes_add(@, code, el.usage),
                                                   code_y, el.usage + 1)]
          ELSE IF mac_element_is_axis(el.type, el.page, el.usage)
            THEN IF seen THEN st
                 ELSE [marked EXCEPT
                         !.caps = mac_add_axis_code(@, code, el.usage, el.min, el.max)]
          ELSE IF mac_element_is_button(el.type, el.page, el.usage)
            THEN IF seen THEN st
                 ELSE [marked EXCEPT !.caps = mac_add_button_code(@, code, el.usage)]
          ELSE st

\* mac_collect_device_caps: the loop that appends the hat-derived codes.
RECURSIVE MacAppendHats(_, _)
MacAppendHats(c, hats) ==
  IF hats = <<>> THEN c
  ELSE MacAppendHats(mac_add_axis_code_append(c, Head(hats).code, Head(hats).key, -1, 1),
                     Tail(hats))

\* mac_collect_device_caps for a device whose element array could be
\* copied: the slot's lists after it.
mac_collect_device_caps(elements) ==
  LET st == mac_collect_elements([caps |-> mac_caps_clear, hats |-> <<>>, cookies |-> <<>>],
                                 elements)
  IN MacAppendHats(st.caps, st.hats)

\* The loops of moon_gamepad_backend_axes_bin and _buttons_bin on the
\* macOS build: each code of the list as four bytes.
RECURSIVE MacCodesBin(_)
MacCodesBin(xs) ==
  IF xs = <<>> THEN <<>> ELSE LEBytes(Head(xs).code, 4) \o MacCodesBin(Tail(xs))

\* moon_gamepad_backend_axis_info_bin on the macOS build for a known id:
\* present, min and max of the first entry with the code, as twelve bytes.
MacAxisInfoBin(c, code) ==
  LET hits == {i \in 1..Len(c.info) : c.info[i].code = code}
      i == CHOOSE k \in hits : \A j \in hits : k <= j
  IN IF hits = {} THEN LEBytes(0, 4) \o LEBytes(0, 4) \o LEBytes(0, 4)
     ELSE LEBytes(1, 4) \o LEBytes(c.info[i].min, 4) \o LEBytes(c.info[i].max, 4)

\* Elements a device reports: the stick axes X (two elements with the
\* usage, with different ranges) and Y, the throttle of the simulation
\* page, the hat switch and the usage after it, two buttons of the button
\* page out of usage order, a consumer-page control with the usage of one
\* of them, a feature (not input) element with the usage of X, and an
\* input element no list takes.
MacLeaves ==
  {MacElement("input_misc", 1, 48, 1, 0, 255), MacElement("input_misc", 1, 48, 2, -128, 127),
   MacElement("input_misc", 1, 49, 3, 0, 255), MacElement("input_misc", 2, 187, 4, 0, 1023),
   MacElement("input_misc", 1, 57, 5, 0, 7), MacElement("input_misc", 1, 58, 6, 0, 7),
   MacElement("input_button", 9, 2, 7, 0, 1), MacElement("input_button", 9, 1, 8, 0, 1),
   MacElement("input_button", 12, 1, 9, 0, 1), MacElement("feature", 1, 48, 10, 0, 255),
   MacElement("input_misc", 1, 59, 11, 0, 1)}

\* Elements per drawn tree.
MaxElements == 3

\* The usages mac_element_is_axis accepts, as (page, usage), highest first.
MacAxisUsages ==
  <<<<2, 197>>, <<2, 196>>, <<2, 187>>, <<2, 186>>, <<1, 56>>, <<1, 55>>, <<1, 54>>,
    <<1, 53>>, <<1, 52>>, <<1, 51>>, <<1, 50>>, <<1, 49>>, <<1, 48>>>>

\* A device with more axis elements and more buttons than the tables
\* hold: the hat switch, three elements for every axis usage (thirty-nine
\* in all, each with its own cookie and range), the usage after the hat
\* switch, and seventy buttons.
MacBigTree ==
  <<MacElement("input_misc", 1, 57, 5, 0, 7)>> \o
  [k \in 1..39 |-> MacElement("input_misc", MacAxisUsages[((k - 1) % 13) + 1][1],
                              MacAxisUsages[((k - 1) % 13) + 1][2], 20 + k, 0, k)] \o
  <<MacElement("input_misc", 1, 58, 6, 0, 7)>> \o
  [k \in 1..70 |-> MacElement("input_button", 9, 71 - k, 100 + k, 0, 1)]

\* The arrays IOHIDDeviceCopyMatchingElements gives: every sequence of up
\* to MaxElements of the elements, flat, with all but the first inside a
\* collection, and inside a collection and listed again after it; and the
\* big device, flat and inside two collections.
MacTrees ==
  LET flat == UNION {[1..n -> MacLeaves] : n \in 0..MaxElements}
  IN flat
     \cup {<<Head(s), MacCollection(Tail(s))>> : s \in flat \ {<<>>}}
     \cup {<<MacCollection(s)>> \o s : s \in flat}
     \cup {MacBigTree, <<MacCollection(<<MacCollection(MacBigTree)>>)>>}

\* The codes AxisRange is asked about: every code an element of the tree
\* can give, the code after the last hat-derived one, and code 0.
MacRangeCodes ==
  {0, mac_hid_code(1, 60)}
    \cup {mac_hid_code(MacAxisUsages[k][1], MacAxisUsages[k][2]) : k \in 1..13}
    \cup {mac_hid_code(1, u) : u \in {57, 58, 59}}

\* A macOS build in which device_matching_cb is about to collect the
\* capabilities of a device with the given element tree.
InitMacCaps ==
  /\ q = QueueInit(QueueCap, TRUE)
  /\ log = <<>> /\ npop = 0 /\ lastOp = NoOp /\ allocFails = 0
  /\ MacAbsent
  /\ LinuxAbsent
  /\ platform = "mac"
  /\ dec = NoDecode
  /\ \E tree \in MacTrees : meta = [NoMeta EXCEPT !.op = "elements", !.elements = tree]
  /\ RumbleIdle
  /\ WinAbsent

\* mac_collect_device_caps for the device, and what Axes, Buttons and
\* AxisRange return for it once it is connected.
MacCollectDeviceCaps ==
  /\ platform = "mac"
  /\ meta.op = "elements"
  /\ \E c \in {mac_collect_device_caps(meta.elements)} :
       meta' = [meta EXCEPT !.op = "query", !.known = TRUE, !.connected = TRUE,
                            !.axes = MacCodesBin(c.axes),
                            !.buttons = MacCodesBin(c.buttons),
                            !.range = [code \in MacRangeCodes |-> MacAxisInfoBin(c, code)]]
  /\ UNCHANGED <<queueVars, macVars, linuxVars, platform, dec, rumbleVars, winVars>>

NextMacCaps == MacCollectDeviceCaps

SpecMacCaps == InitMacCaps /\ [][NextMacCaps]_vars

\* The values IOHIDDeviceGetProperty gives for the vendor id, product id
\* and version number keys: none (-1 is what the fields are preset to), 0,
\* 16-bit values and one above 16 bits.
MacProps == {-1, 0, 1118, 33041, 65537}

\* A macOS build in which device_matching_cb is about to fill the
\* metadata of one device.
InitMacInfo ==
  /\ q = QueueInit(QueueCap, TRUE)
  /\ log = <<>> /\ npop = 0 /\ lastOp = NoOp /\ allocFails = 0
  /\ MacAbsent
  /\ LinuxAbsent
  /\ platform = "mac"
  /\ dec = NoDecode /\ meta = NoMeta
  /\ RumbleIdle
  /\ WinAbsent

\* mac_fill_device_info for a device with the given properties, and the
\* queries about it once it is connected.  The bus type of a device that
\* has any of the three properties is USB.
MacFillDeviceInfo ==
  /\ platform = "mac"
  /\ meta = NoMeta
  /\ \E v \in MacProps, p \in MacProps, ver \in MacProps, named \in BOOLEAN :
       LET vendor == IF v > 0 THEN v % 65536 ELSE 0
           product == IF p > 0 THEN p % 65536 ELSE 0
           version == IF ver > 0 THEN ver % 65536 ELSE 0
       IN meta' = [NoMeta EXCEPT !.op = "query", !.known = TRUE, !.connected = TRUE,
                                 !.name = IF named THEN "Controller" ELSE "Unknown",
                                 !.vendor = v, !.product = p,
                                 !.uuid = uuid_simple_macos(vendor, product, version),
                                 !.ident = IF vendor = 0 /\ product = 0 /\ version = 0
                                             THEN <<0, 0, 0, 0>>
                                             ELSE <<3, vendor, product, version>>]
  /\ UNCHANGED <<queueVars, macVars, linuxVars, platform, dec, rumbleVars, winVars>>

\* The three builds under metadata queries: the Linux and Windows drivers
\* with devices coming and going, and the macOS identity strings.
InitMeta == InitLinuxRumble \/ InitWindows \/ InitMacInfo

NextMeta ==
  \/ LinuxPlug \/ LinuxUnplug \/ LinuxPoll \/ LinuxPollReturn
  \/ WinPlug \/ WinUnplug \/ WinPoll \/ WinReturn
  \/ MetaQuery \/ MetaReturn \/ MacFillDeviceInfo

SpecMeta == InitMeta /\ [][NextMeta]_vars

\* ------------------------------------- either of the two id-assigning builds
InitDrivers == InitMac \/ InitLinux

NextDrivers == NextMac \/ NextLinux

SpecDrivers == InitDrivers /\ [][NextDrivers]_vars

\* ------------------------------------------- the device tables of the builds
\* The macOS build with devices coming and going: the start-up of the
\* background thread, the matching and removal callbacks with their
\* pushes, and a consumer that takes records off the queue.
NextMacDevices ==
  \/ MacThreadStart \/ MacThreadPublish \/ MacRunLoopEnter
  \/ MatchingCb \/ MatchFill \/ RemovalCb
  \/ MacPushLock \/ MacPushStore \/ MacPushBump
  \/ MacNextLock \/ MacNextPop

SpecMacDevices == InitMac /\ [][NextMacDevices]_vars

\* The Windows build under Polls, with pads coming, going and reporting.
NextWindowsPads == WinPlug \/ WinUnplug \/ WinInput \/ WinPoll \/ WinReturn

SpecWindowsPads == InitWindows /\ [][NextWindowsPads]_vars

\* The three builds with devices coming and going.
InitBuilds == InitMac \/ InitLinux \/ InitWindows

NextBuilds == NextMacDevices \/ NextLinux \/ NextWindowsPads

SpecBuilds == InitBuilds /\ [][NextBuilds]_vars

\* ------------------------------------------------------ report decoding
\* Largest end of the small logical ranges and raw samples drawn.
MaxRaw == 9
\* The small logical ranges start at -MinDepth..0.
MinDepth == 2

\* ---- the decoders applied to drawn samples, one sample per behaviour
SmallRaw == (-MaxRaw)..MaxRaw
RawSamples == SmallRaw \cup {-32769, -32768, -32767, 255, 32767, 32768}
Int16Samples == SmallRaw \cup {-32768, -32767, 32767}
U8Samples == (0..MaxRaw) \cup {128, 254, 255}
\* Logical ranges a device may report for a stick or trigger.
ReportedRanges == {<<-32768, 32767>>, <<0, 255>>, <<-1, 1>>, <<0, MaxRaw>>}
LinuxAbsCodes ==
  {"ABS_X", "ABS_Y", "ABS_Z", "ABS_RX", "ABS_RY", "ABS_RZ", "ABS_HAT0X", "ABS_HAT0Y", "ABS_MISC"}

InitDecode ==
  /\ q = QueueInit(QueueCap, TRUE)
  /\ log = <<>> /\ npop = 0 /\ lastOp = NoOp /\ allocFails = 0
  /\ MacAbsent
  /\ LinuxAbsent
  /\ platform = "decode"
  /\ dec = NoDecode /\ meta = NoMeta
  /\ RumbleIdle
  /\ WinAbsent

DecodeAxisValue ==
  /\ platform = "decode"
  /\ dec.fn = "none"
  /\ \E minv \in (-MinDepth)..0, maxv \in (-MinDepth)..MaxRaw,
        v \in (-MinDepth - 1)..(MaxRaw + 1), inv \in BOOLEAN :
       dec' = [NoDecode EXCEPT !.fn = "axis_value_like_gilrs", !.v = v, !.minv = minv,
                               !.maxv = maxv, !.inv = inv,
                               !.out = axis_value_like_gilrs(v, minv, maxv, inv)]
  /\ UNCHANGED <<queueVars, macVars, linuxVars, platform, meta, rumbleVars, winVars>>

DecodeLinuxAbs ==
  /\ platform = "decode"
  /\ dec.fn = "none"
  /\ \E code \in LinuxAbsCodes, r \in ReportedRanges, v \in RawSamples :
       dec' = [NoDecode EXCEPT !.fn = "linux_abs", !.code = code, !.v = v,
                               !.minv = r[1], !.maxv = r[2],
                               !.events = LinuxDecodeAbs(0, code, v)]
  /\ UNCHANGED <<queueVars, macVars, linuxVars, platform, meta, rumbleVars, winVars>>

DecodeMacAxis ==
  /\ platform = "decode"
  /\ dec.fn = "none"
  /\ \E usage \in 48..53, r \in ReportedRanges, v \in RawSamples :
       dec' = [NoDecode EXCEPT !.fn = "mac_axis", !.usage = usage, !.v = v,
                               !.minv = r[1], !.maxv = r[2],
                               !.events = MacDecodeAxis(0, usage, v)]
  /\ UNCHANGED <<queueVars, macVars, linuxVars, platform, meta, rumbleVars, winVars>>

DecodeMacHat ==
  /\ platform = "decode"
  /\ dec.fn = "none"
  /\ \E hat_min \in {0, 1}, width \in {3, 7, MaxRaw}, px \in {-1, 0, 1}, py \in {-1, 0, 1} :
       \E hat_v \in (hat_min - 1)..(hat_min + width + 1) :
         dec' = [NoDecode EXCEPT !.fn = "mac_hat", !.usage = 57, !.v = hat_v,
                                 !.minv = hat_min, !.maxv = hat_min + width,
                                 !.px = px, !.py = py, !.nx = px, !.ny = py,
                                 !.events = MacDecodeHat(0, hat_v, hat_min, hat_min + width)]
  /\ UNCHANGED <<queueVars, macVars, linuxVars, platform, meta, rumbleVars, winVars>>

DecodeWinStick ==
  /\ platform = "decode"
  /\ dec.fn = "none"
  /\ \E code \in {CODE_AXIS_LSTICKX, CODE_AXIS_LSTICKY, CODE_AXIS_RSTICKX, CODE_AXIS_RSTICKY},
        old \in {0, 1}, new \in Int16Samples :
       dec' = [NoDecode EXCEPT !.fn = "win_stick", !.usage = code, !.v = new,
                               !.minv = -32768, !.maxv = 32767,
                               !.events = WinDecodeStick(0, code, old, new)]
  /\ UNCHANGED <<queueVars, macVars, linuxVars, platform, meta, rumbleVars, winVars>>

DecodeWinTrigger ==
  /\ platform = "decode"
  /\ dec.fn = "none"
  /\ \E code \in {CODE_BTN_LT2, CODE_BTN_RT2}, old \in {0, 1}, new \in U8Samples :
       dec' = [NoDecode EXCEPT !.fn = "win_trigger", !.usage = code, !.v = new,
                               !.minv = 0, !.maxv = 255,
                               !.events = WinDecodeTrigger(0, code, old, new)]
  /\ UNCHANGED <<queueVars, macVars, linuxVars, platform, meta, rumbleVars, winVars>>

NextDecode ==
  \/ DecodeAxisValue \/ DecodeLinuxAbs \/ DecodeMacAxis \/ DecodeMacHat
  \/ DecodeWinStick \/ DecodeWinTrigger

SpecDecode == InitDecode /\ [][NextDecode]_vars

\* ------------------------------------------------------------ helpers
Min(a, b) == IF a < b THEN a ELSE b

LastN(s, n) == SubSeq(s, Len(s) - n + 1, Len(s))

\* ------------------------------------------------------------- claims

C2_Original ==
  lastOp.op = "next" =>
    /\ (lastOp.out = <<>>) <=> (lastOp.before.len = 0)
    /\ lastOp.before.len = 0 => q = lastOp.before

\* C2 amended: NextEvent on an empty queue returns the empty result and
\* leaves head, tail and length unchanged; on a non-empty queue it removes
\* exactly the oldest record and returns it as one 32-byte record, unless
\* the allocation of the result fails, in which case it returns the empty
\* result (the record is removed all the same).
C2_NextEvent ==
  lastOp.op = "next" =>
    LET b == lastOp.before
    IN /\ b.len = 0 => (lastOp.out = <<>> /\ q = b)
       /\ b.len > 0 =>
            /\ q = [b EXCEPT !.head = (b.head + 1) % b.cap, !.len = b.len - 1]
            /\ QueueContents(q) = Tail(QueueContents(b))
            /\ lastOp.allocOk =>
                 (Len(lastOp.out) = 32 /\ lastOp.out = EncodeEvent(b.buf[b.head]))
            /\ ~lastOp.allocOk => lastOp.out = <<>>

\* C2 witness: a NextEvent on a queue of two records returned the oldest.
C2_Witness ==
  /\ lastOp.op = "next" /\ lastOp.before.len = 2 /\ lastOp.allocOk
  /\ Len(lastOp.out) = 32 /\ q.len = 1

\* ---- macOS: threads inside the queue's critical sections
BgInQueue == bg.pc \in {"push_store", "push_bump"}
ConInQueue == con.pc \in {"pop_locked", "wait_first", "wait_loop"}

\* Shutdown has begun to release the manager or the retained devices.
Releasing == con.pc \in {"sd_close", "sd_release", "sd_done"} \/ mgr = "released"

\* A callback is executing on the background thread.
InCallback == bg.pc \in {"match_fill", "push", "push_store", "push_bump"}

\* C3: on the callback-driven platform Shutdown releases the manager and
\* the retained device handles only after the background thread has been
\* joined (and, if its run loop ran, after the loop was stopped), so no
\* callback runs once releasing has begun.
C3_JoinBeforeRelease ==
  Releasing =>
    /\ bg.pc = "exited"
    /\ ~InCallback
    /\ rl = "set" => stopReq

\* C3 witness: Shutdown is about to release a retained device handle of a
\* thread whose run loop ran and was stopped.
C3_Witness ==
  /\ con.pc = "sd_release" /\ bg.pc = "exited" /\ stopReq
  /\ \E i \in 1..Len(slots) : slots[i].dev # 0

\* C4: on the callback-driven platform a thread reads or writes the
\* queue's buffer, head, tail and length only while it holds the queue
\* mutex; the two threads are never inside the queue together and the
\* consumer never sees head, tail and length partially updated.
C4_QueueUnderMutex ==
  platform = "mac" =>
    /\ BgInQueue => mu = "bg"
    /\ ConInQueue => mu = "con"
    /\ ~(BgInQueue /\ ConInQueue)
    /\ ConInQueue => q.tail = (q.head + q.len) % q.cap

\* C4 witness: the background thread is half-way through a push (tail
\* advanced, length not yet) while the consumer waits for the mutex.
C4_Witness ==
  /\ bg.pc = "push_bump" /\ mu = "bg"
  /\ con.pc \in {"wait_lock", "wait_relock"}
  /\ q.tail # (q.head + q.len) % q.cap

\* C5 as stated: on the callback-driven platform no consumer-side metadata
\* query reads the device table while a matching or removal callback is in
\* the middle of writing it.
C5_OnlyQueueShared ==
  con.pc = "meta" => bg.pc # "match_fill"

\* ---- DeviceIds and per-id event sequences (macOS and Linux builds)
IsConnected(ev) == ev.tag = MOON_GAMEPAD_EV_CONNECTED
IsDisconnected(ev) == ev.tag = MOON_GAMEPAD_EV_DISCONNECTED

\* C6: on the callback-driven and kernel-node platforms the DeviceIds of
\* the Connected records are strictly increasing in enqueue order over the
\* whole lifetime of the backend: no id is given to two connections, also
\* not on a reconnect or after slots were disconnected or compacted.
C6_ConnectedIdsIncrease ==
  \A i, j \in 1..Len(log) :
    (i < j /\ IsConnected(log[i]) /\ IsConnected(log[j])) => log[i].id < log[j].id

\* C6 witness: on the kernel-node build a device was connected, hung up,
\* its slot compacted away, and a later scan connected a node again under
\* a fresh id in the reclaimed slot.
C6_Witness ==
  /\ platform = "linux" /\ Len(log) = 3
  /\ IsConnected(log[1]) /\ IsDisconnected(log[2]) /\ IsConnected(log[3])
  /\ log[1].id = log[2].id /\ log[3].id > log[1].id
  /\ Len(slots) = 1 /\ slots[1].id = log[3].id

\* C7: on the callback-driven and kernel-node platforms the records
\* enqueued for one DeviceId are exactly one Connected first, then button
\* and axis records, then at most one Disconnected; nothing carrying the
\* id is enqueued after its Disconnected.
C7_PerIdSequence ==
  \A i \in 1..Len(log) :
    LET earlier == {j \in 1..(i - 1) : log[j].id = log[i].id}
    IN /\ IsConnected(log[i]) <=> (earlier = {})
       /\ \A j \in earlier : ~IsDisconnected(log[j])

\* C7 witness: on the callback-driven build one id has had its Connected,
\* an input record and its Disconnected, and its slot is marked
\* disconnected.
C7_Witness ==
  /\ platform = "mac" /\ Len(log) = 3
  /\ IsConnected(log[1]) /\ log[2].tag = MOON_GAMEPAD_EV_BUTTON_PRESSED
  /\ IsDisconnected(log[3])
  /\ log[1].id = log[2].id /\ log[2].id = log[3].id
  /\ \E i \in 1..Len(slots) : slots[i].id = log[3].id /\ slots[i].connected = 0

\* ---- blocking Poll
\* C8 as stated: a Poll with a negative timeout returns only when the
\* queue holds at least one record.
C8_BlockingPollReturnsNonEmpty ==
  (con.pc = "poll_ret" /\ con.timeout < 0) => q.len > 0

\* C9 as stated: a blocking Poll (timeout # 0) does not wait while the
\* queue holds a record, whether the record was queued before the call or
\* enqueued by the scan of the same call.
C9_NoWaitWhileQueued ==
  LinuxBlocked => q.len = 0

\* C10 as stated: a Poll with a positive timeout returns only with a
\* non-empty queue or once the timeout has elapsed.
C10_TimedPollReturn ==
  (con.pc = "poll_ret" /\ con.timeout > 0) => (q.len > 0 \/ con.elapsed)

\* ---- report decoding
\* The trigger axes of the logical-code enumeration (CODE_AXIS_RT, _LT,
\* _RT2, _LT2).
TriggerAxisCodes == 108..111

InClosed(val, lo, hi) == FracLe(Frac(lo, 1), val) /\ FracLe(val, Frac(hi, 1))

\* C11 as stated: every AxisChanged record a driver enqueues carries a
\* value within [-1,1] (within [0,1] on a trigger axis) and every
\* ButtonChanged record of an analog trigger a value within [0,1], for
\* every raw sample.
C11_ValuesInRange ==
  \A i \in 1..Len(dec.events) :
    LET ev == dec.events[i]
    IN /\ ev.tag = MOON_GAMEPAD_EV_AXIS_CHANGED =>
            IF ev.code \in TriggerAxisCodes THEN InClosed(ev.value, 0, 1)
                                            ELSE InClosed(ev.value, -1, 1)
       /\ ev.tag = MOON_GAMEPAD_EV_BUTTON_CHANGED => InClosed(ev.value, 0, 1)

\* The sample decoded was one of a continuous (non-hat) axis whose device
\* reports the logical range [minv, maxv] with minv < maxv.
ContinuousAxisDecoded ==
  /\ dec.minv < dec.maxv
  /\ \/ dec.fn = "axis_value_like_gilrs" /\ ~dec.inv
     \/ /\ dec.fn \in {"linux_abs", "mac_axis", "win_stick"}
        /\ dec.events # <<>>
        /\ dec.events[1].code \notin {CODE_AXIS_DPADX, CODE_AXIS_DPADY}

\* The value the decoder produced for the sample.
DecodedValue == IF dec.fn = "axis_value_like_gilrs" THEN dec.out ELSE dec.events[1].value

\* C12 as stated: for a continuous axis with reported logical range
\* [min,max], min < max, a sample equal to min decodes to exactly -1 and
\* a sample equal to max to exactly 1, and samples in between decode into
\* [-1,1], scaled from the reported range.
C12_EndpointsExact ==
  ContinuousAxisDecoded =>
    /\ dec.v = dec.minv => FracEq(DecodedValue, Frac(-1, 1))
    /\ dec.v = dec.maxv => FracEq(DecodedValue, Frac(1, 1))
    /\ (dec.minv <= dec.v /\ dec.v <= dec.maxv) => InClosed(DecodedValue, -1, 1)

\* val / range * 2.0 - 1.0, Y inversion and the clamp, for the numerator
\* and denominator after the adjustment (adj = 1) or without it (adj = 0).
ScaledAxis(v, minv, maxv, inv, adj) ==
  LET raw == Frac(2 * (v - minv + adj) - (maxv - minv + adj), maxv - minv + adj)
  IN clamp_f64(IF inv /\ raw.n # 0 THEN FracNeg(raw) ELSE raw, Frac(-1, 1), Frac(1, 1))

CodesOf(events, tag) == {events[i].code : i \in {j \in 1..Len(events) : events[j].tag = tag}}

OnlyIf(cond, e) == IF cond THEN {e} ELSE {}

\* The DPad button of a non-zero horizontal or (pre-inversion) vertical
\* component.
DPadX(x) == IF x > 0 THEN CODE_BTN_DPAD_RIGHT ELSE CODE_BTN_DPAD_LEFT
DPadY(y) == IF y > 0 THEN CODE_BTN_DPAD_DOWN ELSE CODE_BTN_DPAD_UP

\* C14 as stated: a hat sample that changes the pad state from (px,py) to
\* (x,y) enqueues a ButtonReleased for each component leaving a non-zero
\* value and a ButtonPressed of the matching DPad direction for each
\* component entering a non-zero value, then the two hat AxisChanged
\* records, and stores (x,y) as the previous state; (0,0) -> (1,0) gives
\* exactly ButtonPressed(DPadRight), AxisChanged, AxisChanged.
C14_HatDiffing ==
  dec.fn = "mac_hat" =>
    LET dv == MacDpadValue(dec.v, dec.minv, dec.maxv)
        x == MacHatX(dv)
        y == MacHatY(dv)
        n == Len(dec.events)
    IN /\ CodesOf(dec.events, MOON_GAMEPAD_EV_BUTTON_RELEASED) =
            OnlyIf(dec.px # 0 /\ dec.px # x, DPadX(dec.px))
              \cup OnlyIf(dec.py # 0 /\ dec.py # y, DPadY(dec.py))
       /\ CodesOf(dec.events, MOON_GAMEPAD_EV_BUTTON_PRESSED) =
            OnlyIf(x # 0 /\ dec.px # x, DPadX(x))
              \cup OnlyIf(y # 0 /\ dec.py # y, DPadY(y))
       /\ n >= 2
       /\ dec.events[n - 1].tag = MOON_GAMEPAD_EV_AXIS_CHANGED
       /\ dec.events[n].tag = MOON_GAMEPAD_EV_AXIS_CHANGED
       /\ dec.nx = x /\ dec.ny = y

\* ---- rumble
\* The longest duration an effect of the build runs for.
RumbleMaxMs == IF platform = "linux" THEN LINUX_FF_MAX_MS ELSE WIN_RUMBLE_MAX_MS

\* The rumble fields the driver holds in the current state.
RumbleNow == IF platform = "linux" THEN LinuxRumbleOf(slots) ELSE WinRumbleOf(win)

\* The pending expiry of device id among the given rumble fields, 0 for none.
UntilOf(rs, id) ==
  IF \E k \in 1..Len(rs) : rs[k].id = id
    THEN rs[CHOOSE k \in 1..Len(rs) : rs[k].id = id].ff_until_ms
    ELSE 0

\* The commands of the given kind a call sent to descriptor fd from the
\* given part of the code.
CmdsOf(cmds, kind, fd, by) ==
  {k \in 1..Len(cmds) : cmds[k].kind = kind /\ cmds[k].fd = fd /\ cmds[k].by = by}

\* What every Poll does with the expiries it finds: its tick stops a
\* device exactly once if the time it reads has reached the expiry, and
\* clears the expiry; it sends no stop to any other device, and an expiry
\* not yet reached stays as it is while the device stays connected.
PollExpires ==
  ffOp.op = "poll" =>
    /\ \A k \in 1..Len(ffOp.before) :
         LET r == ffOp.before[k]
             due == r.ff_until_ms # 0 /\ ffOp.t >= r.ff_until_ms
         IN /\ Cardinality(CmdsOf(ffOp.cmds, "stop", r.fd, "tick")) = IF due THEN 1 ELSE 0
            /\ due => UntilOf(RumbleNow, r.id) = 0
            /\ (~due /\ CmdsOf(ffOp.cmds, "stop", r.fd, "remove") = {}) =>
                 UntilOf(RumbleNow, r.id) = r.ff_until_ms
    /\ \A c \in 1..Len(ffOp.cmds) :
         ffOp.cmds[c].by = "tick" =>
           \E k \in 1..Len(ffOp.before) : ffOp.before[k].fd = ffOp.cmds[c].fd

\* A SetRumble that returned success for d > 0 has started the effect and
\* set the device's expiry to the time it read plus min(d, maximum).
SetSchedules ==
  /\ Cardinality({k \in 1..Len(ffOp.cmds) : ffOp.cmds[k].kind = "play"}) = 1
  /\ UntilOf(RumbleNow, ffOp.id) = ffOp.t + Min(ffOp.d, RumbleMaxMs)

RumbleCapable(id) ==
  IF platform = "linux"
    THEN \E i \in 1..Len(slots) :
           slots[i].id = id /\ slots[i].fd >= 0 /\ slots[i].ff_supported
    ELSE /\ platform = "windows"
         /\ id >= 0 /\ id < WinPads /\ win[id + 1].connected /\ xinput # "missing"

\* The rumble fields of device id before the call in progress, as a set.
BeforeOf(id) == {ffOp.before[k] : k \in {j \in 1..Len(ffOp.before) : ffOp.before[j].id = id}}

\* The call in progress is a SetRumble that asks for a stop.
StopRequested ==
  ffOp.op = "set" /\ (ffOp.d <= 0 \/ (ffOp.strong.n = 0 /\ ffOp.weak.n = 0))

\* C16: for a connected device that supports force feedback, SetRumble
\* with durationMs <= 0 or with both amplitudes 0 returns success, sends a
\* stop for the effect the device holds, leaves no pending expiry, and
\* starts no effect.
C16_StopRequest ==
  (StopRequested /\ RumbleCapable(ffOp.id)) =>
    /\ ffOp.rc = 1
    /\ \A r \in BeforeOf(ffOp.id) :
         r.ff_id >= 0 => Cardinality(CmdsOf(ffOp.cmds, "stop", r.fd, "set")) = 1
    /\ UntilOf(RumbleNow, ffOp.id) = 0
    /\ \A k \in 1..Len(ffOp.cmds) : ffOp.cmds[k].kind \notin {"upload", "play"}

\* C16 witness: full amplitudes with duration 0 sent to a device whose
\* effect is running; the call stopped it and cleared the expiry.
C16_Witness ==
  /\ StopRequested /\ RumbleCapable(ffOp.id)
  /\ ffOp.d = 0 /\ ffOp.strong.n > 0
  /\ \E r \in BeforeOf(ffOp.id) :
       /\ r.ff_until_ms > ffOp.t
       /\ CmdsOf(ffOp.cmds, "stop", r.fd, "set") # {}
  /\ UntilOf(RumbleNow, ffOp.id) = 0
  /\ ffOp.rc = 1

\* C17: SetRumble addressed to a device without force-feedback capability,
\* to one not opened with write access, to a disconnected slot or to an
\* unknown id returns failure, sends no command to any device, and leaves
\* the effect handle and the expiry of every slot as they were.
C17_RejectedNoEffect ==
  (ffOp.op = "set" /\ ~RumbleCapable(ffOp.id)) =>
    /\ ffOp.rc = 0
    /\ ffOp.cmds = <<>>
    /\ RumbleNow = ffOp.before

\* C17 witness: a start request addressed to a connected device that is
\* read-only or has no rumble motor, or to a pad that is not connected,
\* while another device's effect is running; the call failed and the
\* running effect is as it was.
C17_Witness ==
  /\ ffOp.op = "set" /\ ffOp.d > 0 /\ ffOp.strong.n > 0
  /\ ffOp.rc = 0 /\ ffOp.cmds = <<>>
  /\ \/ \E i \in 1..Len(slots) : slots[i].id = ffOp.id /\ ~slots[i].ff_supported
     \/ platform = "windows" /\ ffOp.id \in 0..(WinPads - 1) /\ ~win[ffOp.id + 1].connected
  /\ \E k \in 1..Len(ffOp.before) : ffOp.before[k].ff_until_ms > ffOp.t
  /\ RumbleNow = ffOp.before

\* The call in progress discards the device of rumble fields r: it shuts
\* the backend down, or it is a Poll after which the device is no longer
\* connected.
Discards(r) ==
  \/ ffOp.op = "shutdown"
  \/ /\ ffOp.op = "poll"
     /\ IF platform = "linux" THEN \A i \in 1..Len(slots) : slots[i].id # r.id
                              ELSE ~win[r.id + 1].connected

\* The positions of the commands of the given kind sent to descriptor fd.
Sent(kind, fd) == {k \in 1..Len(ffOp.cmds) : ffOp.cmds[k].kind = kind /\ ffOp.cmds[k].fd = fd}

\* C18 as stated: when a Poll detects a disconnect or the backend is shut
\* down, the effect the device holds is stopped (and, where effects are
\* uploaded, removed) before the handle is closed; after the Poll the
\* device has no effect handle and no expiry left, and no device gets
\* rumble state from a Poll.
C18_StopBeforeDiscard ==
  ffOp.op \in {"poll", "shutdown"} =>
    /\ \A k \in 1..Len(ffOp.before) :
         LET r == ffOp.before[k]
         IN (Discards(r) /\ r.ff_id >= 0) =>
              /\ Sent("stop", r.fd) # {}
              /\ platform = "linux" =>
                   /\ Sent("remove", r.fd) # {} /\ Sent("close", r.fd) # {}
                   /\ \A a \in Sent("stop", r.fd), b \in Sent("remove", r.fd),
                         c \in Sent("close", r.fd) : a < b /\ b < c
    /\ ffOp.op = "poll" =>
         \A k \in 1..Len(RumbleNow) :
           \E j \in 1..Len(ffOp.before) :
             /\ ffOp.before[j].id = RumbleNow[k].id
             /\ ~Discards(ffOp.before[j])

\* ---- metadata
\* C19 as stated: for an id no Connected record ever carried, Name and
\* UuidSimple return the empty string, VendorId and ProductId -1,
\* IsForceFeedbackSupported false, Axes and Buttons the empty list and
\* AxisRange None, on every platform.
C19_UnknownIdSentinels ==
  (meta.op = "query" /\ ~meta.known) =>
    /\ meta.name = "" /\ meta.uuid = <<>>
    /\ meta.vendor = -1 /\ meta.product = -1
    /\ ~meta.ff
    /\ meta.axes = <<>> /\ meta.buttons = <<>> /\ meta.range = <<>>

\* The 16 bytes of an identity with each field in two bytes, and with each
\* field in four, low byte first, the rest zero.
IdBytesPacked(ident) ==
  Le16(ident[1]) \o Le16(ident[2]) \o Le16(ident[3]) \o Le16(ident[4]) \o Zeros(8)
IdBytesWide(ident) ==
  Le16(ident[1]) \o Zeros(2) \o Le16(ident[2]) \o Zeros(2) \o Le16(ident[3]) \o Zeros(2)
    \o Le16(ident[4]) \o Zeros(2)

\* C20 as stated: for every connected device, UuidSimple is exactly 32
\* characters, each from 0-9a-f, and is the lowercase hex rendering of 16
\* bytes that hold the bus type, vendor id, product id and version id in
\* little-endian order, with zero bytes where a field is unknown.
C20_UuidFormat ==
  (meta.op = "query" /\ meta.connected) =>
    /\ Len(meta.uuid) = 32
    /\ \A i \in 1..Len(meta.uuid) : \E h \in 1..16 : meta.uuid[i] = HEX[h]
    /\ \/ meta.uuid = bytes_to_hex32(IdBytesPacked(meta.ident))
       \/ meta.uuid = bytes_to_hex32(IdBytesWide(meta.ident))

\* ---- connected-device count
\* The ids that are connected according to the records enqueued so far:
\* the last Connected or Disconnected record carrying the id is a
\* Connected one.
ConnectedIds(lg) ==
  {lg[i].id : i \in {k \in 1..Len(lg) :
                       /\ IsConnected(lg[k])
                       /\ \A j \in (k + 1)..Len(lg) :
                            ~(IsDisconnected(lg[j]) /\ lg[j].id = lg[k].id)}}

\* The consumer can call GamepadCount and finds the driver at rest:
\* between calls or right after a Poll, no callback being in progress.
CountReadable ==
  /\ con.pc \in {"idle", "poll_ret"}
  /\ bg.pc \in {"absent", "start", "setup", "enter", "running", "exited"}

\* C21: wherever the consumer can call it (after any completed Poll on
\* the kernel-node and fixed-slot builds, after any completed matching or
\* removal callback on the callback-driven build), GamepadCount is the
\* number of ids that have a Connected record and no Disconnected record
\* after it among the records enqueued.
C21_CountIsConnected ==
  CountReadable => gamepad_count = Cardinality(ConnectedIds(log))

\* C21 witness: a device was connected, was disconnected and another is
\* connected now, so that the count is 1 after three such records.
C21_Witness ==
  /\ CountReadable
  /\ Len(log) = 3 /\ IsConnected(log[1]) /\ IsDisconnected(log[2]) /\ IsConnected(log[3])
  /\ log[2].id = log[1].id
  /\ gamepad_count = 1

\* ---- slot compaction
\* The records a step enqueues.
Enqueued == SubSeq(log', Len(log) + 1, Len(log'))

\* A Poll of the kernel-node build runs in this step.
LinuxPollStep == platform = "linux" /\ ffOp'.op = "poll" /\ ffOp # ffOp'

\* The slots of the table that the step does not disconnect.
Survivors ==
  {i \in 1..Len(slots) :
     ~\E k \in 1..Len(Enqueued) : IsDisconnected(Enqueued[k]) /\ Enqueued[k].id = slots[i].id}

\* Slot j of the table after the step holds the record of slot i before
\* it: handle, DeviceId, path, vendor, product, identity string and name,
\* the write-access and force-feedback flags, the effect id, and the
\* rumble expiry unless the tick of this Poll found it due.
SameDevice(i, j) ==
  LET a == slots[i]
      b == slots'[j]
  IN /\ b.fd = a.fd /\ b.id = a.id /\ b.path = a.path
     /\ LinuxInfo(b) = LinuxInfo(a)
     /\ b.rw = a.rw /\ b.ff_supported = a.ff_supported /\ b.ff_id = a.ff_id
     /\ b.ff_until_ms = IF LinuxFfDue(a.ff_until_ms, ffOp'.t) THEN 0 ELSE a.ff_until_ms

\* The place after the step of the device node that slot i held before it.
PlaceOf(i) == CHOOSE j \in 1..Len(slots') : slots'[j].path = slots[i].path

BetweenCallbacks == platform = "mac" /\ bg.pc = "running"

\* Handle d is not tracked: no slot holds it and no connected slot holds
\* its registry entry.
NewlyMatched(d) ==
  /\ find_device_idx(slots, d) < 0
  /\ ~\E i \in 1..Len(slots) : slots[i].connected = 1 /\ slots[i].entry = EntryOf(d)

\* C23: on the callback-driven build a newly matched valid device is
\* ignored only when as many devices as the table has slots are connected
\* at that moment: with fewer connected, also after earlier devices have
\* disconnected, the device gets a slot, a new DeviceId and a Connected
\* record.
C23_IgnoredOnlyWhenFull ==
  BetweenCallbacks =>
    \A d \in Dev :
      (NewlyMatched(d) /\ mac_connected_count(slots) < MaxSlots)
        => device_matching_accepts(slots, d, TRUE)

\* ---- device loss on the kernel-node build
\* poll(2) has returned with ready descriptors in this step and the loop
\* over them runs.
LinuxHandleStep ==
  /\ platform = "linux" /\ con.pc = "in_poll" /\ con'.pc = "poll_ret"
  /\ \E i \in 1..Len(slots) : LinuxRevents(slots[i]) # "none"

\* The read loop of slot i ends in this step with end-of-file or an error
\* other than EAGAIN: the node of the slot is gone after it.
ReadFails(i) ==
  LinuxRevents(slots[i]) = "in" /\ slots[i].path \in nodes /\ slots[i].path \notin nodes'

\* The records a step enqueues for an id, in order.
EnqueuedFor(id) == SelectSeq(Enqueued, LAMBDA e : e.id = id)

\* The number of raw events of a read buffer that decode to a record.
Decodable(id, raws) == Len(SelectSeq(raws, LAMBDA raw : LinuxDecode(id, raw) # <<>>))

\* C24: on the kernel-node build, when poll(2) reports an error, hang-up
\* or invalid descriptor for a device, or a read from it ends with
\* end-of-file or an error other than would-block, the Poll enqueues
\* exactly one Disconnected record with the id of the device, after the
\* records decoded from it in that pass, and the device is off the table
\* when the Poll ends; a read that ends with would-block disconnects
\* nothing.
C24_LossBecomesDisconnected ==
  [][LinuxHandleStep =>
       \A i \in 1..Len(slots) :
         LET id == slots[i].id
             rev == LinuxRevents(slots[i])
             mine == EnqueuedFor(id)
             decoded == IF rev = "in" THEN Decodable(id, slots[i].kbuf) ELSE 0
             listed == \E j \in 1..Len(slots') : slots'[j].id = id
         IN IF rev = "err" \/ ReadFails(i)
              THEN /\ Len(mine) = decoded + 1
                   /\ IsDisconnected(mine[Len(mine)])
                   /\ \A k \in 1..decoded : ~IsDisconnected(mine[k])
                   /\ ~listed
                   /\ gamepad_count' = Len(slots')
              ELSE /\ Len(mine) = decoded
                   /\ \A k \in 1..decoded : ~IsDisconnected(mine[k])
                   /\ listed]_vars

\* C24 witness: a Poll has returned in which a device delivered a button
\* record and was then lost: its id has Connected, the button record and
\* Disconnected as the last record enqueued, and is off the table.
C24_Witness ==
  /\ platform = "linux" /\ con.pc = "poll_ret"
  /\ Len(log) >= 3
  /\ log[Len(log) - 1].tag = MOON_GAMEPAD_EV_BUTTON_PRESSED
  /\ IsDisconnected(log[Len(log)])
  /\ log[Len(log)].id = log[Len(log) - 1].id
  /\ ~\E j \in 1..Len(slots) : slots[j].id = log[Len(log)].id
  /\ gamepad_count = Len(slots)

\* ---- connection records of the fixed-slot build
\* A Poll of the fixed-slot build runs in this step.
WinPollStep == platform = "windows" /\ con.pc = "idle" /\ con'.pc = "poll_ret"

\* Connected and Disconnected records.
IsLifecycle(ev) == IsConnected(ev) \/ IsDisconnected(ev)

\* The Connected and Disconnected records of a history that carry an id.
LifecycleOf(lg, id) == SelectSeq(lg, LAMBDA e : e.id = id /\ IsLifecycle(e))

\* Every record of the history that carries the id and is no Connected
\* has a Connected as the last connection record before it.
OnlyWhileConnected(lg, id) ==
  \A k \in 1..Len(lg) :
    (lg[k].id = id /\ ~IsConnected(lg[k])) =>
      LET before == LifecycleOf(SubSeq(lg, 1, k - 1), id)
      IN before # <<>> /\ IsConnected(before[Len(before)])

\* C25: on the fixed-slot build every record carries a slot index as its
\* DeviceId; a Poll enqueues Connected for a slot exactly when its status
\* query succeeds after having failed and Disconnected exactly when it
\* fails after having succeeded, so that the Connected and Disconnected
\* records of a slot alternate, Connected first, and no button or axis
\* record of a slot is enqueued while the slot is disconnected.
C25_SlotLifecycle ==
  [][WinPollStep =>
       /\ \A k \in 1..Len(log') : log'[k].id \in 0..(WinPads - 1)
       /\ \A idx \in 0..(WinPads - 1) :
            LET was == win[idx + 1].connected
                is == xinput # "missing" /\ pads[idx + 1].present
                mine == LifecycleOf(Enqueued, idx)
                all == LifecycleOf(log', idx)
            IN /\ mine = IF ~was /\ is THEN <<Event(MOON_GAMEPAD_EV_CONNECTED, idx, 0, 0)>>
                          ELSE IF was /\ ~is /\ xinput # "missing"
                            THEN <<Event(MOON_GAMEPAD_EV_DISCONNECTED, idx, 0, 0)>>
                          ELSE <<>>
               /\ \A k \in 1..Len(all) : IsConnected(all[k]) <=> (k % 2 = 1)
               /\ OnlyWhileConnected(log', idx)]_vars

\* C25 witness: a slot has been connected, disconnected and connected
\* again by three Polls, and is connected now.
C25_Witness ==
  /\ platform = "windows" /\ con.pc = "poll_ret"
  /\ \E idx \in 0..(WinPads - 1) :
       /\ win[idx + 1].connected
       /\ LifecycleOf(log, idx) = <<Event(MOON_GAMEPAD_EV_CONNECTED, idx, 0, 0),
                                    Event(MOON_GAMEPAD_EV_DISCONNECTED, idx, 0, 0),
                                    Event(MOON_GAMEPAD_EV_CONNECTED, idx, 0, 0)>>

\* ---- button records
IsButtonEdge(ev) ==
  ev.tag \in {MOON_GAMEPAD_EV_BUTTON_PRESSED, MOON_GAMEPAD_EV_BUTTON_RELEASED}

\* Records i < j of the history are consecutive ButtonPressed or
\* ButtonReleased records of one id and code within one connection.
ConsecutiveEdges(lg, i, j) ==
  /\ i < j /\ IsButtonEdge(lg[i]) /\ IsButtonEdge(lg[j])
  /\ lg[i].id = lg[j].id /\ lg[i].code = lg[j].code
  /\ \A k \in (i + 1)..(j - 1) :
       lg[k].id = lg[i].id =>
         /\ ~IsLifecycle(lg[k])
         /\ ~(IsButtonEdge(lg[k]) /\ lg[k].code = lg[i].code)

\* C26: on every build, two consecutive ButtonPressed/ButtonReleased
\* records of one device id and button code within one connection are of
\* different kinds, whatever raw reports the hardware delivers.
C26_ButtonEdges ==
  \A i, j \in 1..Len(log) : ConsecutiveEdges(log, i, j) => log[i].tag # log[j].tag

\* ---- termination of Shutdown
\* C27: on the callback-driven build Shutdown always terminates: in every
\* interleaving of the start-up of the background thread with Shutdown,
\* once Shutdown has made its stop request and joins the background
\* thread, the join completes and Shutdown returns.
C27_ShutdownTerminates ==
  (platform = "mac" /\ con.pc = "sd_join") ~> (con.pc = "sd_done")

\* ---- wake-up of a blocked Poll
\* The consumer is inside the waiting part of a Poll with a timeout other
\* than 0.
BlockedInPoll ==
  /\ platform = "mac"
  /\ con.pc \in {"wait_loop", "waiting", "wait_relock"}
  /\ con.timeout # 0

\* C28: on the callback-driven build no wake-up is lost: when the
\* consumer is blocked in a Poll with a negative or positive timeout and
\* the background thread has pushed a record, the consumer is eventually
\* woken and the Poll returns with the queue non-empty, however the push
\* interleaves with the length check and the wait.
C28_NoLostWakeup ==
  (BlockedInPoll /\ q.len > 0) ~> (con.pc = "poll_ret" /\ q.len > 0)

\* C28 witness: a Poll without deadline that found the queue empty and
\* waited was signalled by a push and has returned with a record queued.
C28_Witness ==
  /\ platform = "mac" /\ con.pc = "poll_ret"
  /\ con.timeout < 0 /\ con.waited /\ con.woken
  /\ q.len > 0

\* ---- removal and re-matching on the callback-driven build
\* The connected slots that were created for the device behind handle d:
\* those that hold its registry entry.
SlotsOf(d) == {i \in 1..Len(slots) : slots[i].connected = 1 /\ slots[i].entry = EntryOf(d)}

\* C29: on the callback-driven build a removal notification for a
\* connected device is applied to exactly the slot that was created for
\* that device, whatever other devices are connected (also devices that
\* report the same location id), so that this slot is marked disconnected
\* and its DeviceId is the one of the Disconnected record; a removal
\* notification for a device without a connected slot is applied to no
\* slot.
C29_RemovalHitsOwnSlot ==
  BetweenCallbacks =>
    \A d \in Dev :
      LET idx == device_removal_idx(slots, d, TRUE)
      IN IF SlotsOf(d) # {} THEN idx + 1 \in SlotsOf(d) ELSE idx = -1

\* C30: on the callback-driven build at most one connected slot exists
\* per registry entry; a matching notification for a device whose
\* registry entry is that of a connected slot is ignored, and a matching
\* notification for a device that had a slot and was removed gets a new
\* slot and a new DeviceId.
C30_OneSlotPerEntry ==
  BetweenCallbacks =>
    /\ \A i, j \in 1..Len(slots) :
         (slots[i].connected = 1 /\ slots[j].connected = 1 /\ slots[i].entry = slots[j].entry)
           => i = j
    /\ \A d \in Dev :
         /\ SlotsOf(d) # {} => \A valid \in BOOLEAN : ~device_matching_accepts(slots, d, valid)
         /\ ( /\ \E i \in 1..Len(slots) : slots[i].entry = EntryOf(d)
              /\ SlotsOf(d) = {}
              /\ find_device_idx(slots, d) < 0 )
              => device_matching_accepts(slots, d, TRUE)

\* ---- hat samples on the callback-driven build
\* The direction a position of an 8-position hat stands for, as (x, y)
\* with right = +1, left = -1, up = -1, down = +1: 0 is up and the
\* positions go clockwise; any other value is the centre.
HatDirection(s) ==
  CASE s = 0 -> <<0, -1>>
    [] s = 1 -> <<1, -1>>
    [] s = 2 -> <<1, 0>>
    [] s = 3 -> <<1, 1>>
    [] s = 4 -> <<0, 1>>
    [] s = 5 -> <<-1, 1>>
    [] s = 6 -> <<-1, 0>>
    [] s = 7 -> <<-1, -1>>
    [] OTHER -> <<0, 0>>

\* C34: on the callback-driven build a hat sample is enqueued as exactly
\* two AxisChanged records, the horizontal one before the vertical one,
\* whose values x and y are in {-1, 0, 1}: for a logical range of 8 values
\* they are the direction of the shifted sample (0 up, then clockwise; up
\* is y = -1 and down y = +1), for a range of 4 values the direction of
\* twice the shifted sample, and (0, 0) for every other range size and
\* for a sample outside the range.
C34_HatPairs ==
  dec.fn = "mac_hat" =>
    LET size == dec.maxv - dec.minv + 1
        shifted == dec.v - dec.minv
        want == IF size = 8 THEN HatDirection(shifted)
                ELSE IF size = 4 THEN HatDirection(2 * shifted)
                ELSE <<0, 0>>
    IN /\ Len(dec.events) = 2
       /\ \A i \in 1..2 : dec.events[i].tag = MOON_GAMEPAD_EV_AXIS_CHANGED
       /\ dec.events[1].code = mac_hid_code(1, 57)
       /\ dec.events[2].code = mac_hid_code(1, 58)
       /\ dec.events[1].value = Frac(want[1], 1)
       /\ dec.events[2].value = Frac(want[2], 1)
       /\ want[1] \in {-1, 0, 1} /\ want[2] \in {-1, 0, 1}

\* C34 witness: a 4-position hat at its last position (left) was decoded
\* to x = -1, y = 0.
C34_Witness ==
  /\ dec.fn = "mac_hat"
  /\ dec.maxv - dec.minv = 3 /\ dec.v - dec.minv = 3
  /\ dec.events[1].value = Frac(-1, 1) /\ dec.events[2].value = Frac(0, 1)

\* ---- ring indices
\* C38: after any sequence of Push and Pop on an initialized queue of
\* capacity C > 0: 0 <= length <= C, head < C, tail < C and
\* tail = (head + length) mod C.
C38_RingIndices ==
  platform = "queue" =>
    /\ q.cap > 0
    /\ 0 <= q.len /\ q.len <= q.cap
    /\ 0 <= q.head /\ q.head < q.cap
    /\ 0 <= q.tail /\ q.tail < q.cap
    /\ q.tail = (q.head + q.len) % q.cap

\* C38 witness: the ring has wrapped: records were popped, the queue is
\* not empty and tail is behind head.
C38_Witness ==
  /\ platform = "queue" /\ ~q.null
  /\ npop > 0 /\ q.len > 0 /\ q.tail <= q.head

\* ---- scanning for device nodes
\* A Poll enters in this step: timers, rescan and compaction run.
ScanStep == platform = "linux" /\ con.pc = "idle" /\ con'.pc \in {"in_poll", "poll_ret"}

\* No two open slots of the table hold the same path.
DistinctPaths(sl) ==
  \A i, j \in 1..Len(sl) : (sl[i].fd >= 0 /\ sl[j].fd >= 0 /\ sl[i].path = sl[j].path) => i = j

\* Path p is held by an open slot of the table.
Tracked(sl, p) == \E i \in 1..Len(sl) : sl[i].fd >= 0 /\ sl[i].path = p

\* The capability bits contain at least one of the gamepad buttons the
\* driver looks for and either both stick axes or a hat axis.
Qualifies(bits) ==
  /\ bits.ok
  /\ \E k \in bits.key :
       k \in {"BTN_GAMEPAD", "BTN_JOYSTICK", "BTN_SOUTH", "BTN_EAST", "BTN_NORTH", "BTN_WEST",
              "BTN_TL", "BTN_TR", "BTN_START", "BTN_SELECT", "BTN_MODE", "BTN_DPAD_UP",
              "BTN_DPAD_DOWN", "BTN_DPAD_LEFT", "BTN_DPAD_RIGHT"}
  /\ \/ "ABS_X" \in bits.abs /\ "ABS_Y" \in bits.abs
     \/ "ABS_HAT0X" \in bits.abs \/ "ABS_HAT0Y" \in bits.abs

\* The records with the given tag and id among those the step enqueues.
EnqueuedWith(tag, id) ==
  {k \in 1..Len(Enqueued) : Enqueued[k].tag = tag /\ Enqueued[k].id = id}

\* C31: on the kernel-node build no two active slots hold the same path
\* and the table never holds more than MaxFds (64) slots; a step re-opens
\* and re-announces no path that is tracked: a tracked path keeps its slot
\* and DeviceId until that device's Disconnected record is enqueued, a
\* slot is opened only for a present node whose path was not tracked, with
\* exactly one Connected record, and a scan that finds the table full
\* changes nothing and lets the Poll go on.
C31_TrackedOnce ==
  [][platform = "linux" =>
       /\ DistinctPaths(slots) /\ DistinctPaths(slots')
       /\ Len(slots) <= MaxFds /\ Len(slots') <= MaxFds
       /\ \A i \in 1..Len(slots) :
            \/ \E j \in 1..Len(slots') :
                 slots'[j].id = slots[i].id /\ slots'[j].path = slots[i].path
            \/ /\ EnqueuedWith(MOON_GAMEPAD_EV_DISCONNECTED, slots[i].id) # {}
               /\ ~Tracked(slots', slots[i].path)
       /\ \A j \in 1..Len(slots') :
            slots'[j].id >= next_id =>
              /\ ~Tracked(slots, slots'[j].path)
              /\ slots'[j].path \in nodes
              /\ Cardinality(EnqueuedWith(MOON_GAMEPAD_EV_CONNECTED, slots'[j].id)) = 1
       /\ \A k \in 1..Len(Enqueued) :
            IsConnected(Enqueued[k]) =>
              /\ Enqueued[k].id >= next_id
              /\ \E j \in 1..Len(slots') : slots'[j].id = Enqueued[k].id
       /\ (ScanStep /\ Len(slots) = MaxFds) =>
            /\ slots' = slots /\ Enqueued = <<>> /\ next_id' = next_id
            /\ con'.pc = "in_poll"
  ]_vars

\* C31 witness: a Poll has scanned with the table full while another
\* gamepad node was present, and the last slot holds a device that was
\* opened after a disconnection.
C31_Witness ==
  /\ platform = "linux" /\ con.pc = "in_poll" /\ Len(slots) = MaxFds
  /\ \E k \in 1..Len(log) : IsDisconnected(log[k])
  /\ slots[Len(slots)].id = next_id - 1 /\ next_id > MaxFds
  /\ \E p \in nodes : Qualifies(NodeBits(p)) /\ ~Tracked(slots, p)

\* The candidates of the scan of this step: the nodes present whose path
\* is not tracked.
Candidates == {p \in nodes : ~Tracked(slots, p)}

\* The step accepts node p: a slot is opened for it and announced.
AcceptedIn(p) ==
  \E j \in 1..Len(slots') :
    /\ slots'[j].path = p /\ slots'[j].id >= next_id
    /\ EnqueuedWith(MOON_GAMEPAD_EV_CONNECTED, slots'[j].id) # {}

\* The step closes node p again and leaves no slot and no record for it.
RejectedIn(p) ==
  /\ ~Tracked(slots', p)
  /\ \E k \in 1..Len(ffOp'.closed) : ffOp'.closed[k] = p
  /\ Len(Enqueued) = Cardinality({q2 \in Candidates : AcceptedIn(q2)})

Translatable(raw) ==
  \/ /\ LinuxRaw(raw).type = "EV_KEY"
     /\ LinuxRaw(raw).code \in
          {"BTN_SOUTH", "BTN_EAST", "BTN_C", "BTN_NORTH", "BTN_WEST", "BTN_Z", "BTN_TL",
           "BTN_TR", "BTN_TL2", "BTN_TR2", "BTN_SELECT", "BTN_START", "BTN_MODE",
           "BTN_THUMBL", "BTN_THUMBR", "BTN_DPAD_UP", "BTN_DPAD_DOWN", "BTN_DPAD_LEFT",
           "BTN_DPAD_RIGHT"}
  \/ /\ LinuxRaw(raw).type = "EV_ABS"
     /\ LinuxRaw(raw).code \in
          {"ABS_X", "ABS_Y", "ABS_Z", "ABS_RX", "ABS_RY", "ABS_RZ", "ABS_HAT0X", "ABS_HAT0Y"}

\* The records a read pass over the reports raws of device id enqueues.
ReadRecords(id, raws) ==
  LinuxReadAll(LinuxState(<<>>, 0, QueueInit(Len(raws) + 1, TRUE), <<>>), id, raws).log

\* The input records the step enqueues for device id.
InputFor(id) ==
  SelectSeq(Enqueued, LAMBDA e : e.id = id /\ ~IsConnected(e) /\ ~IsDisconnected(e))

\* C33: on the kernel-node build a raw report that is neither a key nor
\* an absolute axis, or whose code has no entry in the translation table,
\* enqueues no record and changes nothing in the device's slot, and the
\* reports after it are decoded in the same pass: a read pass enqueues
\* for a device exactly what it would enqueue had the buffer held the
\* translatable reports alone, one record for each, and leaves the slot
\* of a device that stays connected as it was.
C33_UntranslatedDropped ==
  [][LinuxHandleStep =>
       \A i \in 1..Len(slots) :
         LinuxRevents(slots[i]) = "in" =>
           LET kept == SelectSeq(slots[i].kbuf, Translatable)
           IN /\ InputFor(slots[i].id) = ReadRecords(slots[i].id, kept)
              /\ Len(InputFor(slots[i].id)) = Len(kept)
              /\ i \in Survivors =>
                   \E j \in 1..Len(slots') : slots'[j] = [slots[i] EXCEPT !.kbuf = <<>>]
  ]_vars

\* C33 witness: a Poll has read a button press that came after its scan
\* code, and a hat movement that came after a report of an axis without a
\* translation: both records are in the history.
C33_Witness ==
  /\ platform = "linux" /\ con.pc = "poll_ret" /\ hw = MaxHw
  /\ \E k \in 1..Len(log) : log[k] = Event(MOON_GAMEPAD_EV_BUTTON_PRESSED, 0, CODE_BTN_SOUTH, 1)
  /\ \E k \in 1..Len(log) : log[k] = Event(MOON_GAMEPAD_EV_AXIS_CHANGED, 0, CODE_AXIS_DPADX, -1)


\* ---- a popped Connected record and the device's metadata (macOS build)
\* The id of the Connected record the last NextEvent call returned, as a
\* set: empty when the call returned something else.
PoppedConnected ==
  {id \in 0..next_id :
     lastOp.op = "next"
     /\ lastOp.out = EncodeEvent(Event(MOON_GAMEPAD_EV_CONNECTED, id, 0, 0))}

\* C39: on the callback-driven platform, once a Connected record for an id
\* has been enqueued (so also whenever the consumer has popped it), every
\* metadata lookup of the id finds the device's own slot and that slot has
\* been filled by mac_collect_device_caps and mac_fill_device_info: this
\* holds for every value the unlocked read of the id table can give while
\* the callback thread is adding another device, until Shutdown has
\* emptied the table.
C39_ConnectedIsFilled ==
  (platform = "mac" /\ con.pc # "sd_done") =>
    \A k \in 1..Len(log) :
      IsConnected(log[k]) =>
        \A ids \in device_ids_read(slots, bg.pc) :
          LET idx == idx_by_id_u32(ids, log[k].id)
          IN /\ idx >= 0
             /\ slots[idx + 1].id = log[k].id
             /\ slots[idx + 1].filled

\* C39 witness: the consumer has popped the Connected record of one device
\* and is inside a metadata query while the callback thread is half-way
\* through adding the next device, whose slot is not filled yet.
C39_Witness ==
  /\ platform = "mac"
  /\ PoppedConnected # {}
  /\ con.pc = "meta"
  /\ bg.pc = "match_fill"
  /\ ~slots[Len(slots)].filled


\* ---- the rumble effect of a device (Linux build)
\* The effect id device id held before the call in progress and the one it
\* holds now; -1 for none and for a device that is not tracked.
FfIdBefore(id) ==
  IF \E r \in BeforeOf(id) : r.ff_id >= 0
    THEN (CHOOSE r \in BeforeOf(id) : r.ff_id >= 0).ff_id
    ELSE -1
FfIdNow(id) ==
  IF LinuxIdxById(slots, id) # 0 THEN slots[LinuxIdxById(slots, id)].ff_id ELSE -1

\* The call in progress is a SetRumble that asks for an effect: a positive
\* duration and a magnitude that is not 0 after the conversion to 16 bits.
StartRequested ==
  /\ ffOp.op = "set" /\ ffOp.d > 0
  /\ (amp_to_u16(ffOp.strong) # 0 \/ amp_to_u16(ffOp.weak) # 0)

\* The positions of the EVIOCSFF commands of the call in progress.
Uploads == {k \in 1..Len(ffOp.cmds) : ffOp.cmds[k].kind = "upload"}

\* What C37 says apart from who creates the effect.  A call uploads at
\* most once, and an upload names the effect the device holds, so that it
\* creates one (id -1) only for a device that holds none; a SetRumble,
\* stop request or not, leaves the id of an existing effect as it is, and
\* one that starts it plays that id; and whatever the call (SetRumble,
\* Poll, Shutdown), a device that held an effect before it and is still
\* tracked after it holds the same id: the id is given up only with the
\* slot, on disconnect or shutdown.
OneEffectKept ==
  platform = "linux" =>
    /\ Cardinality(Uploads) <= 1
    /\ \A k \in Uploads : ffOp.op = "set" /\ ffOp.cmds[k].id = FfIdBefore(ffOp.id)
    /\ (ffOp.op = "set" /\ FfIdBefore(ffOp.id) >= 0) => FfIdNow(ffOp.id) = FfIdBefore(ffOp.id)
    /\ (StartRequested /\ ffOp.rc = 1) =>
         /\ Cardinality(Uploads) = 1
         /\ FfIdNow(ffOp.id) >= 0
         /\ \E k \in 1..Len(ffOp.cmds) :
              ffOp.cmds[k].kind = "play" /\ ffOp.cmds[k].id = FfIdNow(ffOp.id)
    /\ \A k \in 1..Len(ffOp.before) :
         LET r == ffOp.before[k]
         IN (r.ff_id >= 0 /\ LinuxIdxById(slots, r.id) # 0) => FfIdNow(r.id) = r.ff_id

\* The call in progress is a SetRumble that has given a device its effect.
EffectCreated ==
  platform = "linux" /\ ffOp.op = "set" /\ FfIdBefore(ffOp.id) < 0 /\ FfIdNow(ffOp.id) >= 0

\* C37 as stated: each device has at most one rumble effect; the first
\* successful non-stop SetRumble creates it, so the call that creates it
\* returns success; every later SetRumble on the connected device reuses
\* the same effect id, a stop request keeps it, and it is reset only on
\* disconnect or shutdown.
C37_Original ==
  /\ OneEffectKept
  /\ EffectCreated => (StartRequested /\ ffOp.rc = 1)

\* C37, amended: each device has at most one rumble effect; it is created
\* by the first non-stop SetRumble whose upload succeeds, also when the
\* start command then fails and the call returns failure; every later
\* SetRumble on the connected device reuses the same effect id, a stop
\* request keeps it, and it is reset only on disconnect or shutdown.
C37_OneEffect ==
  /\ OneEffectKept
  /\ EffectCreated =>
       /\ StartRequested
       /\ \E k \in Uploads : ffOp.cmds[k].id = -1

\* C37 witness: a successful non-stop SetRumble on a device that already
\* holds an effect has uploaded to that effect's id and started it.
C37_Witness ==
  /\ platform = "linux"
  /\ StartRequested /\ ffOp.rc = 1
  /\ FfIdBefore(ffOp.id) >= 0
  /\ \E k \in Uploads : ffOp.cmds[k].id = FfIdBefore(ffOp.id)


\* ---- the capability lists of a device (macOS build)
\* The elements of a tree that are not collections, in discovery order:
\* depth first, the children of a collection in its place.
RECURSIVE Discovered(_)
Discovered(elements) ==
  IF elements = <<>> THEN <<>>
  ELSE IF Len(elements) > 1
    THEN Discovered(SubSeq(elements, 1, Len(elements) \div 2)) \o
         Discovered(SubSeq(elements, Len(elements) \div 2 + 1, Len(elements)))
  ELSE IF elements[1].type = "collection" THEN Discovered(elements[1].children)
  ELSE elements

\* The k-th int32_t of a byte string.
WordAt(bytes, k) ==
  bytes[4 * k - 3] + 256 * bytes[4 * k - 2] + 65536 * bytes[4 * k - 1]
    + 16777216 * (IF bytes[4 * k] >= 128 THEN bytes[4 * k] - 256 ELSE bytes[4 * k])
CodesIn(bytes) == [k \in 1..(Len(bytes) \div 4) |-> WordAt(bytes, k)]

\* What an element contributes: a directly-reported axis code, a button
\* code, or (a hat switch) two derived axis codes.
IsAxisEl(e) == mac_element_is_axis(e.type, e.page, e.usage)
IsButtonEl(e) == mac_element_is_button(e.type, e.page, e.usage)
IsHatEl(e) == mac_element_is_hat(e.type, e.page, e.usage)
CodeOf(e) == e.page * 65536 + e.usage
DirectCodes(els) == {CodeOf(els[i]) : i \in {j \in 1..Len(els) : IsAxisEl(els[j])}}
HatCodes(els) ==
  UNION {{CodeOf(els[i]), CodeOf(els[i]) + 1} : i \in {j \in 1..Len(els) : IsHatEl(els[j])}}
ButtonCodes(els) == {CodeOf(els[i]) : i \in {j \in 1..Len(els) : IsButtonEl(els[j])}}

\* The position in discovery order of the first axis or button element
\* with each of the codes.
FirstWith(els, codes) ==
  [code \in codes |->
     LET at == {i \in 1..Len(els) :
                  (IsAxisEl(els[i]) \/ IsButtonEl(els[i])) /\ CodeOf(els[i]) = code}
     IN CHOOSE i \in at : \A j \in at : i <= j]

\* The codes of a list that are among the given ones are in usage-id
\* order, equal usage ids in the order of the given first positions.
StableUsageOrder(codes, among, first) ==
  \A i, j \in 1..Len(codes) :
    (i < j /\ codes[i] \in among /\ codes[j] \in among) =>
      \/ codes[i] % 65536 < codes[j] % 65536
      \/ codes[i] % 65536 = codes[j] % 65536 /\ first[codes[i]] < first[codes[j]]

NoDuplicate(codes) == \A i, j \in 1..Len(codes) : i # j => codes[i] # codes[j]

\* The elements without those whose cookie an earlier element has.
OncePerCookie(els) ==
  LET keep == {i \in 1..Len(els) : \A j \in 1..(i - 1) : els[j].cookie # els[i].cookie}
  IN [k \in 1..Cardinality(keep) |->
        els[CHOOSE i \in keep : Cardinality({j \in keep : j < i}) = k - 1]]

\* C35: for every element tree the Axes list has no duplicate code and
\* consists of the directly-reported axis codes, in non-decreasing
\* usage-id order with equal usage ids in discovery order, followed by all
\* hat-derived codes; the Buttons list has no duplicate and is in the same
\* stable usage-id order (and holds every button code when there are no
\* more than the table takes); and the lists are what they would be had
\* every element with an already-seen cookie been left out.
C35_ListsOrdered ==
  (platform = "mac" /\ meta.op = "query") =>
    \A els \in {Discovered(meta.elements)} :
      \A axes \in {CodesIn(meta.axes)}, buttons \in {CodesIn(meta.buttons)},
         direct \in {DirectCodes(els)}, pressed \in {ButtonCodes(els)},
         once \in {mac_collect_device_caps(OncePerCookie(els))} :
        /\ NoDuplicate(axes) /\ NoDuplicate(buttons)
        /\ {axes[i] : i \in 1..Len(axes)} = direct \cup HatCodes(els)
        /\ \A i, j \in 1..Len(axes) : (i < j /\ axes[j] \in direct) => axes[i] \in direct
        /\ \A first \in {FirstWith(els, direct)} : StableUsageOrder(axes, direct, first)
        /\ {buttons[i] : i \in 1..Len(buttons)} \subseteq pressed
        /\ Len(buttons) = Min(Cardinality(pressed), MAC_BUTTONS_CAP)
        /\ \A first \in {FirstWith(els, pressed)} : StableUsageOrder(buttons, pressed, first)
        /\ meta.axes = MacCodesBin(once.axes)
        /\ meta.buttons = MacCodesBin(once.buttons)

\* C35 witness: a device whose array lists an element a second time, with
\* a hat switch discovered before a directly-reported axis, and a button:
\* the Axes list is the axis code followed by the two hat-derived ones.
C35_Witness ==
  /\ platform = "mac" /\ meta.op = "query"
  /\ \A els \in {Discovered(meta.elements)} :
       /\ \E i, j \in 1..Len(els) : i < j /\ els[i].cookie = els[j].cookie
       /\ \E i \in 1..Len(els) :
            IsHatEl(els[i]) /\ \A j \in 1..Len(els) : IsAxisEl(els[j]) => i < j
       /\ Len(meta.axes) = 4 * 3 /\ WordAt(meta.axes, 1) \in DirectCodes(els)
       /\ Len(meta.buttons) = 4

\* The positions in discovery order of the elements that give an axis
\* code its range: an axis element with the code, or a hat switch the
\* code is derived from.
Giving(els, code) ==
  {i \in 1..Len(els) :
     \/ IsAxisEl(els[i]) /\ CodeOf(els[i]) = code
     \/ IsHatEl(els[i]) /\ code \in {CodeOf(els[i]), CodeOf(els[i]) + 1}}

\* C36: AxisRange(id, code) is the (min, max) of the first element
\* discovered with the code, whatever later elements with the code report;
\* it is (-1, 1) for a hat-derived code; and for a code no element gives,
\* the answer is 'not present' (None).
C36_FirstRangeKept ==
  (platform = "mac" /\ meta.op = "query") =>
    \A els \in {Discovered(meta.elements)} :
      \A code \in DOMAIN meta.range :
        \A bin \in {meta.range[code]}, giving \in {Giving(els, code)} :
          /\ Len(bin) = 12
          /\ IF giving = {} THEN WordAt(bin, 1) = 0
             ELSE LET first == els[CHOOSE i \in giving : \A j \in giving : i <= j]
                  IN /\ WordAt(bin, 1) = 1
                     /\ <<WordAt(bin, 2), WordAt(bin, 3)>> =
                          IF IsHatEl(first) THEN <<-1, 1>> ELSE <<first.min, first.max>>

\* C36 witness: a device with two elements of one axis usage that report
\* different ranges, and a hat switch; a code no element gives is asked
\* about as well.
C36_Witness ==
  /\ platform = "mac" /\ meta.op = "query"
  /\ \A els \in {Discovered(meta.elements)} :
       /\ \E i, j \in 1..Len(els) :
            /\ i < j /\ IsAxisEl(els[i]) /\ IsAxisEl(els[j])
            /\ CodeOf(els[i]) = CodeOf(els[j]) /\ els[i].min # els[j].min
            /\ WordAt(meta.range[CodeOf(els[i])], 2) = els[i].min
       /\ \E i \in 1..Len(els) : IsHatEl(els[i])
       /\ \E code \in DOMAIN meta.range : Giving(els, code) = {}

\* Every code an element can give the Axes list: the usages
\* mac_element_is_axis or mac_element_is_hat accepts among all pages up to
\* the consumer page and all usages of one byte.
AxisCodeSpace ==
  UNION {IF mac_element_is_hat("input_misc", pu[1], pu[2])
           THEN {pu[1] * 65536 + pu[2], pu[1] * 65536 + pu[2] + 1}
         ELSE IF mac_element_is_axis("input_misc", pu[1], pu[2])
           THEN {pu[1] * 65536 + pu[2]}
         ELSE {} : pu \in (0..12) \X (0..255)}

\* C40: for every element tree, also one with more axis and hat elements
\* than the tables have entries, AxisRange is present for every code in
\* the Axes list; the codes elements can give are fewer than the entries
\* of the range table.
C40_AxesHaveRange ==
  (platform = "mac" /\ meta.op = "query") =>
    /\ Cardinality(AxisCodeSpace) <= MAC_AXES_CAP
    /\ \A k \in 1..(Len(meta.axes) \div 4) :
         /\ WordAt(meta.axes, k) \in DOMAIN meta.range
         /\ WordAt(meta.range[WordAt(meta.axes, k)], 1) = 1

\* C40 witness: a device with more axis elements than the tables have
\* entries, and both hat usages: all sixteen codes are in the Axes list.
C40_Witness ==
  /\ platform = "mac" /\ meta.op = "query"
  /\ \A els \in {Discovered(meta.elements)} :
       Cardinality({i \in 1..Len(els) : IsAxisEl(els[i]) \/ IsHatEl(els[i])}) > MAC_AXES_CAP
  /\ Len(meta.axes) = 4 * 16

====
